---- MODULE Spec2Model ----
(***************************************************************************)
(* A model of the Doctolib scraper prototypes: the text normaliser, the    *)
(* page-URL builder, the structured-batch parser, the markup (regex)       *)
(* extraction passes, the pagination driver and the entry points that      *)
(* persist the result.  Strings are sequences of one-character strings.    *)
(***************************************************************************)
EXTENDS Integers, Sequences, FiniteSets, TLC

VARIABLES
    call,           \* pure-function harness: the function applied, or "none"
    arg,            \* pure-function harness: its input
    ret,            \* pure-function harness: its result
    variant,        \* "final" (final_doctolib_scraper.py) or "doctolib" (doctolib_scraper.py run by configurable_scraper.py)
    no_json,        \* configurable_scraper.py --no-json
    no_csv,         \* configurable_scraper.py --no-csv
    base_url,       \* self.base_url
    max_pages,      \* self.max_pages
    pc,             \* position of the single thread of control
    page_num,       \* loop variable of scrape_all_pages
    page_url,       \* scrape_page's page_url
    page_doctors,   \* scrape_page's local list `doctors`
    all_doctors,    \* scrape_all_pages' local list
    self_doctors,   \* self.doctors
    fetched,        \* the collaborator's answer for the page in flight
    requested,      \* history: URLs handed to crawler.arun, in order
    attempted,      \* history: page numbers scrape_page was called with
    page_log,       \* history: per attempted page, what the collaborator did and what scrape_page returned
    delays,         \* history: page numbers after which asyncio.sleep(2) ran
    opened,         \* history: browser sessions entered
    released,       \* history: browser sessions exited
    saves,          \* history: save_to_json / save_to_csv calls with their outcome
    exit_code,      \* process exit indication: -1 while running
    rate_i,         \* add_google_ratings: index of the record being rated, 0 outside
    query_i,        \* search_google_rating: index of the query being tried, 0 outside
    searches,       \* history: the (name, query) pairs searched for
    rating_delays,  \* history: record indices after which asyncio.sleep(5) ran
    extraction_schema, \* self.extraction_schema of the LLM scrapers
    schema_log,     \* history: calls of generate_extraction_schema with their outcome
    rng             \* state of the module-level random generator

purevars == <<call, arg, ret>>
runvars == <<variant, no_json, no_csv, base_url, max_pages, pc, page_num, page_url,
             page_doctors, all_doctors, self_doctors, fetched, requested, attempted,
             page_log, delays, opened, released, saves, exit_code, rate_i, query_i,
             searches, rating_delays, extraction_schema, schema_log, rng>>
extvars == <<rate_i, query_i, searches, rating_delays, extraction_schema, schema_log, rng>>
vars == <<call, arg, ret, variant, no_json, no_csv, base_url, max_pages, pc, page_num,
          page_url, page_doctors, all_doctors, self_doctors, fetched, requested,
          attempted, page_log, delays, opened, released, saves, exit_code, rate_i,
          query_i, searches, rating_delays, extraction_schema, schema_log, rng>>

(***************************************************************************)
(* Bounds of the model.                                                    *)
(***************************************************************************)
MaxLen == 5          \* longest raw string given to _clean_text
MaxUrlPieces == 4    \* pieces an input URL is assembled from
MaxBatch == 3        \* items in a structured extraction batch
MaxPages == 3        \* largest max_pages of a run
MaxHeadings == 2     \* name headings in one page's markup

(***************************************************************************)
(* Strings.                                                                *)
(***************************************************************************)
Whitespace == {" ", "\t", "\n"}

RECURSIVE Flatten(_)
Flatten(ss) == IF ss = <<>> THEN <<>> ELSE Head(ss) \o Flatten(Tail(ss))

\* Python's `sub in s`.
Contains(s, sub) ==
    \E i \in 1..(Len(s) - Len(sub) + 1) : SubSeq(s, i, i + Len(sub) - 1) = sub

\* Index of the first occurrence of sub in s (sub is in s).
FindFirst(s, sub) ==
    CHOOSE i \in 1..(Len(s) - Len(sub) + 1) :
        /\ SubSeq(s, i, i + Len(sub) - 1) = sub
        /\ \A j \in 1..(i - 1) : SubSeq(s, j, j + Len(sub) - 1) # sub

\* Python's s.split(sep)[0].
SplitHead(s, sep) == IF Contains(s, sep) THEN SubSeq(s, 1, FindFirst(s, sep) - 1) ELSE s

\* Python's str.strip().
RECURSIVE LStrip(_)
LStrip(s) == IF s # <<>> /\ Head(s) \in Whitespace THEN LStrip(Tail(s)) ELSE s

RECURSIVE RStrip(_)
RStrip(s) ==
    IF s # <<>> /\ s[Len(s)] \in Whitespace THEN RStrip(SubSeq(s, 1, Len(s) - 1)) ELSE s

Strip(s) == RStrip(LStrip(s))

\* re.sub(r'\s+', ' ', s): every maximal whitespace run becomes one space.
RECURSIVE CollapseWhitespace(_)
CollapseWhitespace(s) ==
    IF s = <<>> THEN <<>>
    ELSE IF Head(s) \in Whitespace
         THEN <<" ">> \o CollapseWhitespace(LStrip(s))
         ELSE <<Head(s)>> \o CollapseWhitespace(Tail(s))

\* Position of the first ">" of s, 0 when there is none.
FirstGt(s) ==
    IF \E i \in 1..Len(s) : s[i] = ">"
    THEN CHOOSE i \in 1..Len(s) : s[i] = ">" /\ \A j \in 1..(i - 1) : s[j] # ">"
    ELSE 0

\* re.sub(r'<[^>]+>', '', s): leftmost matches, scanned left to right.  A
\* match starts at a "<", takes one or more characters that are not ">" and
\* ends at the next ">".
RECURSIVE StripTags(_)
StripTags(s) ==
    IF s = <<>> THEN <<>>
    ELSE IF Head(s) = "<" /\ FirstGt(Tail(s)) >= 2
         THEN StripTags(SubSeq(s, FirstGt(Tail(s)) + 2, Len(s)))
         ELSE <<Head(s)>> \o StripTags(Tail(s))

\* A variant with the two steps in the wrong order.
clean_text_tags_last(text) ==
    IF text = <<>> THEN <<>> ELSE StripTags(CollapseWhitespace(Strip(text)))

\* DoctolibScraper._clean_text of final_doctolib_scraper.py on a string.
clean_text(text) ==
    IF text = <<>> THEN <<>> ELSE CollapseWhitespace(Strip(StripTags(text)))

\* DoctolibScraper._clean_text of doctolib_scraper.py and improved_scraper.py.
clean_text_basic(text) ==
    IF text = <<>> THEN <<>> ELSE CollapseWhitespace(Strip(text))

(***************************************************************************)
(* Page URLs.                                                              *)
(***************************************************************************)
AmpPage == <<"&", "p", "a", "g", "e", "=">>
QPage == <<"?", "p", "a", "g", "e", "=">>

Digit(d) == <<"0", "1", "2", "3", "4", "5", "6", "7", "8", "9">>[d + 1]

\* Python's f"{n}" for n >= 0.
RECURSIVE IntToStr(_)
IntToStr(n) == IF n < 10 THEN <<Digit(n)>> ELSE IntToStr(n \div 10) \o <<Digit(n % 10)>>

\* A variant that forgets the "?page=" case.
clean_base_url_amp_only(url) ==
    IF Contains(url, AmpPage) THEN SplitHead(url, AmpPage) ELSE url

\* DoctolibScraper._clean_base_url.
clean_base_url(url) ==
    IF Contains(url, AmpPage) THEN SplitHead(url, AmpPage)
    ELSE IF Contains(url, QPage) THEN SplitHead(url, QPage)
    ELSE url

\* DoctolibScraper._build_page_url, self.base_url passed as base.
\* The page parameter always introduced by "?".
build_page_url_question(base, page_number) == base \o QPage \o IntToStr(page_number)

build_page_url(base, page_number) ==
    IF Contains(base, <<"?">>)
    THEN base \o AmpPage \o IntToStr(page_number)
    ELSE base \o QPage \o IntToStr(page_number)

(***************************************************************************)
(* The values the run variables hold while a pure function is exercised.   *)
(***************************************************************************)
\* The generator as the interpreter leaves it when nothing has seeded it.
Unseeded == [seed |-> "os", draws |-> 0]

ExtIdle ==
    /\ rate_i = 0 /\ query_i = 0 /\ searches = <<>> /\ rating_delays = <<>>
    /\ extraction_schema = "none" /\ schema_log = <<>> /\ rng = Unseeded

RunIdle ==
    /\ ExtIdle
    /\ variant = "none" /\ no_json = FALSE /\ no_csv = FALSE
    /\ base_url = <<>> /\ max_pages = 0 /\ pc = "idle" /\ page_num = 0
    /\ page_url = <<>> /\ page_doctors = <<>> /\ all_doctors = <<>>
    /\ self_doctors = <<>> /\ fetched = <<>> /\ requested = <<>>
    /\ attempted = <<>> /\ page_log = <<>> /\ delays = <<>>
    /\ opened = 0 /\ released = 0 /\ saves = <<>> /\ exit_code = -1

StringsUpTo(alphabet, n) == UNION {[1..k -> alphabet] : k \in 0..n}

(***************************************************************************)
(* _clean_text on every raw string of the alphabet up to MaxLen.           *)
(***************************************************************************)
TextAlphabet == {"<", ">", "a", " ", "\t", "\n"}

InitText ==
    /\ call = "none" /\ arg \in StringsUpTo(TextAlphabet, MaxLen) /\ ret = <<>>
    /\ RunIdle

CleanText ==
    /\ call = "none"
    /\ call' = "_clean_text"
    /\ ret' = clean_text(arg)
    /\ UNCHANGED <<arg, runvars>>

CleanTextBasic ==
    /\ call = "none"
    /\ call' = "_clean_text_basic"
    /\ ret' = clean_text_basic(arg)
    /\ UNCHANGED <<arg, runvars>>

NextText == CleanText \/ CleanTextBasic

SpecText == InitText /\ [][NextText]_vars

(***************************************************************************)
(* _clean_base_url and _build_page_url on input URLs assembled from pieces.*)
(***************************************************************************)
UrlPieces ==
    { <<"h">>, <<"?">>, <<"&">>, <<"x">>, <<"p", "a">>, <<"g", "e", "=">>,
      <<"p", "a", "g", "e", "=">>, <<"&", "p", "a", "g", "e", "=", "2">> }

UrlInputs == {Flatten(ps) : ps \in StringsUpTo(UrlPieces, MaxUrlPieces)}

InitUrl ==
    /\ call = "none" /\ arg \in UrlInputs /\ ret = <<>>
    /\ RunIdle

\* __init__ stores the cleaned base; _build_page_url(1).
UrlBuild ==
    /\ call = "none"
    /\ call' = "built"
    /\ ret' = [base |-> clean_base_url(arg),
               first |-> build_page_url(clean_base_url(arg), 1),
               second |-> <<>>]
    /\ UNCHANGED <<arg, runvars>>

\* A second scraper constructed from the first page URL: strip, build again.
UrlRebuild ==
    /\ call = "built"
    /\ call' = "rebuilt"
    /\ ret' = [ret EXCEPT !.second = build_page_url(clean_base_url(ret.first), 1)]
    /\ UNCHANGED <<arg, runvars>>

NextUrl == UrlBuild \/ UrlRebuild

SpecUrl == InitUrl /\ [][NextUrl]_vars

(***************************************************************************)
(* Claims about the text normaliser and the page URLs.                     *)
(***************************************************************************)
HasTag(s) ==
    \E i \in 1..Len(s) : \E j \in (i + 2)..Len(s) :
        /\ s[i] = "<" /\ s[j] = ">"
        /\ \A k \in (i + 1)..(j - 1) : s[k] # ">"

NoWhitespaceRun(s) == \A i \in 1..(Len(s) - 1) : ~(s[i] \in Whitespace /\ s[i + 1] \in Whitespace)

Trimmed(s) == s = <<>> \/ (s[1] \notin Whitespace /\ s[Len(s)] \notin Whitespace)

NoAngle(s) == \A i \in 1..Len(s) : s[i] \notin {"<", ">"}

\* C5 as stated: for every raw string, _clean_text returns a string with
\* neither "<" nor ">", no two consecutive whitespace characters and no
\* leading or trailing whitespace.
C5_NoAngleBrackets ==
    call = "_clean_text" => NoAngle(ret) /\ NoWhitespaceRun(ret) /\ Trimmed(ret)

\* C5 amended: _clean_text of final_doctolib_scraper.py returns a string with
\* no tag-like substring ("<", one or more characters other than ">", ">"),
\* whose whitespace is single spaces only and which is trimmed; the
\* whitespace part also holds of doctolib_scraper.py's _clean_text.
C5_CleanTextNormalised ==
    /\ call = "_clean_text" =>
          /\ ~HasTag(ret) /\ NoWhitespaceRun(ret) /\ Trimmed(ret)
          /\ \A i \in 1..Len(ret) : ret[i] \in Whitespace => ret[i] = " "
    /\ call = "_clean_text_basic" => NoWhitespaceRun(ret) /\ Trimmed(ret)

\* A raw string with a tag and irregular whitespace around text was cleaned.
C5_Witness ==
    /\ call = "_clean_text"
    /\ arg = <<" ", "<", "a", ">", "a">>
    /\ ret = <<"a">>

\* C6: page-1 URL of the cleaned base, stripped with _clean_base_url and
\* built again for page 1, is the same URL.
C6_RebuildIdempotent == call = "rebuilt" => ret.second = ret.first

\* An input that carried a page parameter went through build, strip, build.
C6_Witness ==
    /\ call = "rebuilt"
    /\ arg = <<"h", "?", "x", "&", "p", "a", "g", "e", "=", "2">>
    /\ ret.first = <<"h", "?", "x", "&", "p", "a", "g", "e", "=", "1">>
    /\ ret.second = ret.first

(***************************************************************************)
(* Structured extraction batches (the JSON the schema pass returns).       *)
(* A field value is absent from the item, null, a string, a falsy          *)
(* non-string (0, false, [], {}) or a truthy non-string (5, true, [1]).    *)
(***************************************************************************)
None == <<"None">>        \* Python's None in a record field: no character sequence equals it

Absent == [k |-> "absent", s |-> <<>>]     \* marks a key the item does not carry
JNull == [k |-> "null", s |-> <<>>]
JFalsy == [k |-> "falsy", s |-> <<>>]
JTruthy == [k |-> "truthy", s |-> <<>>]
JStr(s) == [k |-> "str", s |-> s]

\* item.get(key, default) with a string default.
Get(item, key, default) ==
    IF key \in DOMAIN item.fields THEN item.fields[key] ELSE JStr(default)

\* _clean_text on a JSON value: `not text` returns "", re.sub on a
\* non-string raises TypeError.
clean_text_value(v) ==
    IF v.k \in {"null", "falsy"} THEN [raised |-> FALSE, s |-> <<>>]
    ELSE IF v.k = "str" THEN [raised |-> FALSE, s |-> clean_text(v.s)]
    ELSE [raised |-> TRUE, s |-> <<>>]

\* final_doctolib_scraper.py's Doctor(name, distance, insurance), rating None.
Doctor(name, distance, insurance) ==
    [name |-> name, distance |-> distance, insurance |-> insurance, rating |-> None]

skip_terms ==
    { <<"N", "o", "t", "r", "e", " ", "e", "n", "t", "r", "e", "p", "r", "i", "s", "e">>,
      <<"D", "o", "c", "t", "o", "l", "i", "b">>,
      <<"Q", "u", "e", "s", "t", "i", "o", "n", "s">>,
      <<"R", "e", "c", "h", "e", "r", "c", "h", "e", "s">>,
      <<"P", "o", "u", "r", " ", "l", "e", "s">>,
      <<"C", "e", "n", "t", "r", "e", " ", "d", "'", "a", "i", "d", "e">>,
      <<"U", "t", "i", "l", "i", "s", "e", "r">>,
      <<"M", "o", "t", " ", "d", "e", " ", "p", "a", "s", "s", "e">>,
      <<"P", "r", "e", "n", "d", "r", "e", " ", "e", "t", " ", "c", "o", "n", "f", "i", "r", "m", "e", "r">> }

Unknown == <<"U", "n", "k", "n", "o", "w", "n">>

Denylisted(name) == \E term \in skip_terms : Contains(name, term)

OrNone(s) == IF s = <<>> THEN None ELSE s

\* One iteration of the loop over data_list (lines 140-157): the list after
\* the item, or the TypeError of _clean_text leaving the loop.
ParseItem(item, doctors) ==
    IF ~item.dict THEN [raised |-> FALSE, doctors |-> doctors]
    ELSE LET name == clean_text_value(Get(item, "name", <<>>))
             distance == clean_text_value(Get(item, "distance", <<>>))
             insurance == clean_text_value(Get(item, "insurance", <<>>))
         IN  IF name.raised \/ distance.raised \/ insurance.raised
             THEN [raised |-> TRUE, doctors |-> doctors]
             ELSE IF Strip(name.s) # <<>> /\ Strip(name.s) # Unknown
                     /\ ~Denylisted(Strip(name.s))
                  THEN [raised |-> FALSE,
                        doctors |-> Append(doctors,
                                       Doctor(Strip(name.s), OrNone(Strip(distance.s)),
                                              OrNone(Strip(insurance.s))))]
                  ELSE [raised |-> FALSE, doctors |-> doctors]

RECURSIVE ParseItems(_, _)
ParseItems(items, doctors) ==
    IF items = <<>> THEN [raised |-> FALSE, doctors |-> doctors]
    ELSE LET r == ParseItem(Head(items), doctors)
         IN  IF r.raised THEN r ELSE ParseItems(Tail(items), r.doctors)

\* Lines 159-167: keep the first record of every name.
RECURSIVE unique_doctors(_, _)
unique_doctors(doctors, seen_names) ==
    IF doctors = <<>> THEN <<>>
    ELSE IF Head(doctors).name \in seen_names
         THEN unique_doctors(Tail(doctors), seen_names)
         ELSE <<Head(doctors)>>
              \o unique_doctors(Tail(doctors), seen_names \cup {Head(doctors).name})

\* A variant that keeps every record.
parse_extracted_data_no_dedupe(content) ==
    IF ~content.wf \/ content.top = "other" THEN <<>>
    ELSE ParseItems(content.items, <<>>).doctors

\* DoctolibScraper._parse_extracted_data.  content.wf: json.loads accepts the
\* text; content.top: the parsed value is a list, a dict (taken as a
\* one-item list) or something else.  An exception inside the loop is caught
\* by `except Exception` and the list built so far is returned as it is.
parse_extracted_data(content) ==
    IF ~content.wf THEN <<>>
    ELSE IF content.top = "other" THEN <<>>
    ELSE LET r == ParseItems(content.items, <<>>)
         IN  IF r.raised THEN r.doctors ELSE unique_doctors(r.doctors, {})

Malformed == [wf |-> FALSE, top |-> "other", items |-> <<>>]
JsonOther == [wf |-> TRUE, top |-> "other", items |-> <<>>]
JsonList(items) == [wf |-> TRUE, top |-> "list", items |-> items]
JsonDict(item) == [wf |-> TRUE, top |-> "dict", items |-> <<item>>]

\* A dict item with the keys whose value is not Absent.
Item(name, distance) ==
    LET v == [name |-> name, distance |-> distance]
    IN  [dict |-> TRUE, fields |-> [key \in {x \in {"name", "distance"} : v[x] # Absent} |-> v[key]]]
NonDictItem == [dict |-> FALSE, fields |-> <<>>]

DrA == <<"D", "r", " ", "A">>
DrB == <<"D", "r", " ", "B">>
NotreEntreprise == <<"N", "o", "t", "r", "e", " ", "e", "n", "t", "r", "e", "p", "r", "i", "s", "e">>

(***************************************************************************)
(* _parse_extracted_data on every batch of up to MaxBatch items.           *)
(***************************************************************************)
ParseNames ==
    { Absent, JNull, JTruthy, JStr(DrA), JStr(<<" ">> \o DrA \o <<"\n">>), JStr(DrB),
      JStr(<<"x", " ">> \o NotreEntreprise), JStr(Unknown), JStr(<<" ">>) }

ParseDistances == { Absent, JStr(<<"3", " ", "k", "m">>), JTruthy }

ParseItemsSet == {NonDictItem} \cup {Item(n, d) : n \in ParseNames, d \in ParseDistances}

ParseContents ==
    {Malformed, JsonOther}
    \cup {JsonDict(i) : i \in ParseItemsSet \ {NonDictItem}}
    \cup {JsonList(items) : items \in StringsUpTo(ParseItemsSet, MaxBatch)}

InitParse ==
    /\ call = "none" /\ arg \in ParseContents /\ ret = <<>>
    /\ RunIdle

ParseExtractedData ==
    /\ call = "none"
    /\ call' = "_parse_extracted_data"
    /\ ret' = parse_extracted_data(arg)
    /\ UNCHANGED <<arg, runvars>>

NextParse == ParseExtractedData

SpecParse == InitParse /\ [][NextParse]_vars

\* The cleaned name of an input item, <<>> when it has none (not a dict, not
\* a string, or _clean_text raises on it).
CleanedName(item) ==
    IF item.dict /\ Get(item, "name", <<>>).k = "str"
    THEN Strip(clean_text(Get(item, "name", <<>>).s)) ELSE <<>>

FirstIndex(items, name) ==
    IF \E i \in 1..Len(items) : CleanedName(items[i]) = name
    THEN CHOOSE i \in 1..Len(items) :
            /\ CleanedName(items[i]) = name
            /\ \A j \in 1..(i - 1) : CleanedName(items[j]) # name
    ELSE 0

DistinctNames(doctors) ==
    \A i, j \in 1..Len(doctors) : i # j => doctors[i].name # doctors[j].name

\* C3: the records _parse_extracted_data returns have pairwise distinct
\* names, each non-empty and free of every denylist term, in the order of the
\* first occurrence of their name in the input.
C3_ParsedUniqueValidOrdered ==
    call = "_parse_extracted_data" =>
        /\ DistinctNames(ret)
        /\ \A i \in 1..Len(ret) : ret[i].name # <<>> /\ ~Denylisted(ret[i].name)
        /\ \A i, j \in 1..Len(ret) :
              i < j => /\ FirstIndex(arg.items, ret[i].name) > 0
                       /\ FirstIndex(arg.items, ret[i].name) < FirstIndex(arg.items, ret[j].name)

\* What the code does keep in every case: valid names in input order.
ParsedValidNames ==
    call = "_parse_extracted_data" =>
        /\ \A i \in 1..Len(ret) : ret[i].name # <<>> /\ ~Denylisted(ret[i].name)
        /\ \A i, j \in 1..Len(ret) :
              i < j => FirstIndex(arg.items, ret[i].name) <= FirstIndex(arg.items, ret[j].name)

\* Without a truthy non-string field value in the batch the claim holds.
ParsedUniqueWhenAllStrings ==
    (call = "_parse_extracted_data"
       /\ \A i \in 1..Len(arg.items) :
             /\ Get(arg.items[i], "name", <<>>).k # "truthy"
             /\ Get(arg.items[i], "distance", <<>>).k # "truthy")
    => DistinctNames(ret)

(***************************************************************************)
(* Regular expressions over markup.  Each pattern of the source is a chain *)
(* of literals joined by non-greedy gaps, so it is computed by literal     *)
(* searches: the leftmost start, then the nearest continuation.            *)
(***************************************************************************)
UpperLetters == <<"A", "B", "C", "D", "E", "F", "G", "H", "I", "J", "K", "L", "M",
                  "N", "O", "P", "Q", "R", "S", "T", "U", "V", "W", "X", "Y", "Z">>
LowerLetters == <<"a", "b", "c", "d", "e", "f", "g", "h", "i", "j", "k", "l", "m",
                  "n", "o", "p", "q", "r", "s", "t", "u", "v", "w", "x", "y", "z">>
Digits == {"0", "1", "2", "3", "4", "5", "6", "7", "8", "9"}

\* re.IGNORECASE: both sides are compared in lower case.
LowerChar(c) ==
    IF \E i \in 1..26 : UpperLetters[i] = c
    THEN LowerLetters[CHOOSE i \in 1..26 : UpperLetters[i] = c]
    ELSE c

LowerStr(s) == [i \in 1..Len(s) |-> LowerChar(s[i])]

MatchAt(s, lit, i) ==
    /\ i >= 1 /\ i + Len(lit) - 1 <= Len(s)
    /\ \A k \in 1..Len(lit) : s[i + k - 1] = lit[k]

\* Index of the first occurrence of lit in s at or after from; 0 when none.
Find(s, lit, from) ==
    LET hits == {i \in from..(Len(s) - Len(lit) + 1) : MatchAt(s, lit, i)}
    IN  IF hits = {} THEN 0 ELSE CHOOSE i \in hits : \A j \in hits : i <= j

\* The earliest occurrence of one of the alternatives (?:a|b|...).
FindAny(s, lits, from) ==
    LET hits == {Find(s, l, from) : l \in lits} \ {0}
    IN  IF hits = {} THEN 0 ELSE CHOOSE i \in hits : \A j \in hits : i <= j

AltLen(s, lits, i) == Len(CHOOSE l \in lits : MatchAt(s, l, i))

HasNewline(s, a, b) == \E i \in a..b : s[i] = "\n"

H2Button == <<"<", "h", "2", ">", "<", "b", "u", "t", "t", "o", "n", ">">>
H2ButtonOpen == <<"<", "h", "2", ">", "<", "b", "u", "t", "t", "o", "n">>
CloseHeading == <<"<", "/", "b", "u", "t", "t", "o", "n", ">", "<", "/", "h", "2", ">">>
POpen == <<"<", "p", ">">>
PClose == <<"<", "/", "p", ">">>
SpanOpen == <<"<", "s", "p", "a", "n", ">">>
SpanClose == <<"<", "/", "s", "p", "a", "n", ">">>
DivOpen == <<"<", "d", "i", "v">>
CloseDiv4 == <<"<", "/", "d", "i", "v", ">", "<", "/", "d", "i", "v", ">",
               "<", "/", "d", "i", "v", ">", "<", "/", "d", "i", "v", ">">>
Km == <<"k", "m">>
CommaSpace == <<",", " ">>
Conventionne == {<<"c", "o", "n", "v", "e", "n", "t", "i", "o", "n", "n", "é">>}
StreetWords4 == { <<"r", "u", "e">>, <<"b", "o", "u", "l", "e", "v", "a", "r", "d">>,
                  <<"a", "v", "e", "n", "u", "e">>, <<"p", "l", "a", "c", "e">> }
StreetWords5 == StreetWords4 \cup {<<"s", "q", "u", "a", "r", "e">>}
AnyText == {<<>>}

\* r'<p>(PRE.*?(?:words).*?)</p>' tried at the "<p>" at i (PRE is \d+ when
\* needDigit, else nothing; "." stops at a newline): the index of the closing
\* "</p>", 0 when the pattern does not match there.
PMatchAt(s, i, needDigit, words) ==
    LET t == i + Len(POpen)
        k == FindAny(s, words, IF needDigit THEN t + 1 ELSE t)
        c == IF k = 0 THEN 0 ELSE Find(s, PClose, k + AltLen(s, words, k))
    IN  IF /\ (needDigit => (t <= Len(s) /\ s[t] \in Digits))
           /\ c > 0
           /\ ~HasNewline(s, t, c - 1)
        THEN c ELSE 0

\* re.search of that pattern from pos: [i: the "<p>", c: the "</p>"], i = 0
\* when there is no match.
RECURSIVE PSearch(_, _, _, _)
PSearch(s, pos, needDigit, words) ==
    LET i == Find(s, POpen, pos)
    IN  IF i = 0 THEN [i |-> 0, c |-> 0]
        ELSE IF PMatchAt(s, i, needDigit, words) > 0
             THEN [i |-> i, c |-> PMatchAt(s, i, needDigit, words)]
             ELSE PSearch(s, i + 1, needDigit, words)

\* The group of a PSearch match, cut from the text in its own case.
PGroup(text, m) == SubSeq(text, m.i + Len(POpen), m.c - 1)

\* re.findall of that pattern: the groups, from text.
RECURSIVE PFindAll(_, _, _, _, _)
PFindAll(text, s, pos, needDigit, words) ==
    LET m == PSearch(s, pos, needDigit, words)
    IN  IF m.i = 0 THEN <<>>
        ELSE <<PGroup(text, m)>>
             \o PFindAll(text, s, m.c + Len(PClose), needDigit, words)

\* r'<p>(\d{5}\s+[^<]+)</p>' at the "<p>" at i: the index of "</p>", or 0.
PostalMatchAt(s, i) ==
    LET t == i + Len(POpen)
        lt == Find(s, <<"<">>, t)
    IN  IF /\ t + 6 <= Len(s)
           /\ \A k \in t..(t + 4) : s[k] \in Digits
           /\ s[t + 5] \in Whitespace
           /\ lt >= t + 7
           /\ MatchAt(s, PClose, lt)
        THEN lt ELSE 0

RECURSIVE PostalFindAll(_, _, _)
PostalFindAll(text, s, pos) ==
    LET i == Find(s, POpen, pos)
    IN  IF i = 0 THEN <<>>
        ELSE IF PostalMatchAt(s, i) > 0
             THEN <<SubSeq(text, i + Len(POpen), PostalMatchAt(s, i) - 1)>>
                  \o PostalFindAll(text, s, PostalMatchAt(s, i) + Len(PClose))
             ELSE PostalFindAll(text, s, i + 1)

\* re.search(r'<span>([^<]*km[^<]*)</span>', s), case-sensitive: the group,
\* None when there is no match.
RECURSIVE SpanKm(_, _)
SpanKm(s, pos) ==
    LET i == Find(s, SpanOpen, pos)
        t == i + Len(SpanOpen)
        lt == Find(s, <<"<">>, t)
    IN  IF i = 0 THEN None
        ELSE IF lt > 0 /\ MatchAt(s, SpanClose, lt) /\ Contains(SubSeq(s, t, lt - 1), Km)
             THEN SubSeq(s, t, lt - 1)
             ELSE SpanKm(s, i + 1)

\* ", ".join(parts)
RECURSIVE Join(_)
Join(parts) ==
    IF Len(parts) = 1 THEN Head(parts) ELSE Head(parts) \o CommaSpace \o Join(Tail(parts))

(***************************************************************************)
(* improved_scraper.py: the segmented-block pass.                          *)
(***************************************************************************)
ImprovedDoctor(name, specialty, address, distance, sector_info) ==
    [name |-> name, specialty |-> specialty, address |-> address,
     distance |-> distance, sector_info |-> sector_info, profile_url |-> None]

\* re.findall(r'<h2><button>(.*?)</button></h2>(.*?)(?=<h2><button>|$)', html,
\* re.DOTALL | re.IGNORECASE): the (name, content) pairs.
RECURSIVE doctor_pattern_matches(_, _, _)
doctor_pattern_matches(html, low, pos) ==
    LET h == Find(low, H2Button, pos)
        e == Find(low, CloseHeading, h + Len(H2Button))
        nx == Find(low, H2Button, e + Len(CloseHeading))
        stop == IF nx = 0 THEN Len(html) + 1 ELSE nx
    IN  IF h = 0 \/ e = 0 THEN <<>>
        ELSE <<[name_match |-> SubSeq(html, h + Len(H2Button), e - 1),
                content_match |-> SubSeq(html, e + Len(CloseHeading), stop - 1)]>>
             \o doctor_pattern_matches(html, low, stop)

\* A variant that applies the denylist of final_doctolib_scraper.py.
improved_name_kept_denylist(name) == name # <<>> /\ ~Denylisted(name)

\* Line 108: `if not name: continue`.
improved_name_kept(name) == name # <<>>

\* Lines 105-146: the record of one match, as a list of one record, or the
\* empty list when the match is skipped.
improved_record(m) ==
    LET content == m.content_match
        low == LowerStr(content)
        name == clean_text_basic(m.name_match)
        sp == PSearch(content, 1, FALSE, AnyText)
        specialty == IF sp.i = 0 THEN Unknown ELSE clean_text_basic(PGroup(content, sp))
        address_parts == PFindAll(content, low, 1, TRUE, StreetWords5)
                         \o PostalFindAll(content, low, 1)
        address == IF address_parts = <<>> THEN Unknown
                   ELSE Join([i \in 1..Len(address_parts) |-> clean_text_basic(address_parts[i])])
        km == SpanKm(content, 1)
        distance == IF km = None THEN None ELSE clean_text_basic(km)
        sec == PSearch(low, 1, FALSE, Conventionne)
        sector_info == IF sec.i = 0 THEN None ELSE clean_text_basic(PGroup(content, sec))
    IN  IF improved_name_kept(name)
        THEN <<ImprovedDoctor(name, specialty, address, distance, sector_info)>>
        ELSE <<>>

RECURSIVE improved_records(_)
improved_records(matches) ==
    IF matches = <<>> THEN <<>>
    ELSE improved_record(Head(matches)) \o improved_records(Tail(matches))

\* ImprovedDoctolibScraper._extract_doctors_from_cleaned_html.
extract_doctors_from_cleaned_html(html) ==
    improved_records(doctor_pattern_matches(html, LowerStr(html), 1))

(***************************************************************************)
(* doctolib_scraper.py: the section pass and the name-anchored context     *)
(* pass of _extract_doctors_from_html.                                     *)
(***************************************************************************)
DoctolibDoctor(name, specialty, address, phone, rating, availability, profile_url) ==
    [name |-> name, specialty |-> specialty, address |-> address, phone |-> phone,
     rating |-> rating, availability |-> availability, profile_url |-> profile_url]

SectionSpecialty ==
    <<"G", "a", "s", "t", "r", "o", "-", "e", "n", "t", "é", "r", "o", "l", "o", "g", "u", "e",
      " ", "e", "t", " ", "h", "é", "p", "a", "t", "o", "l", "o", "g", "u", "e">>

\* r'<h2><button[^>]*>' at h: the index just after its ">", 0 when it does
\* not match there.
HeadingOpenEnd(s, h) ==
    IF MatchAt(s, H2ButtonOpen, h) /\ Find(s, <<">">>, h + Len(H2ButtonOpen)) > 0
    THEN Find(s, <<">">>, h + Len(H2ButtonOpen)) + 1
    ELSE 0

\* re.findall(r'<h2><button[^>]*>(.*?)</button></h2>', html, DOTALL | IGNORECASE).
RECURSIVE name_matches(_, _, _)
name_matches(html, low, pos) ==
    LET h == Find(low, H2ButtonOpen, pos)
        n == HeadingOpenEnd(low, h)
        e == Find(low, CloseHeading, n)
    IN  IF h = 0 \/ n = 0 \/ e = 0 THEN <<>>
        ELSE <<SubSeq(html, n, e - 1)>> \o name_matches(html, low, e + Len(CloseHeading))

\* r'<div[^>]*>' at d: the index just after its ">", 0 when no match there.
DivOpenEnd(s, d) ==
    IF MatchAt(s, DivOpen, d) /\ Find(s, <<">">>, d + Len(DivOpen)) > 0
    THEN Find(s, <<">">>, d + Len(DivOpen)) + 1
    ELSE 0

\* doctor_section_pattern tried at d: [n: start of the name, e: its end,
\* stop: index after the closing divs], n = 0 when no match there.
SectionMatchAt(s, d) ==
    LET n == HeadingOpenEnd(s, DivOpenEnd(s, DivOpenEnd(s, DivOpenEnd(s, DivOpenEnd(s, d)))))
        e == Find(s, CloseHeading, n)
        c == Find(s, CloseDiv4, e + Len(CloseHeading))
    IN  IF n > 0 /\ e > 0 /\ c > 0
        THEN [n |-> n, e |-> e, stop |-> c + Len(CloseDiv4)]
        ELSE [n |-> 0, e |-> 0, stop |-> 0]

\* re.findall(doctor_section_pattern, html, DOTALL | IGNORECASE): group 1 of
\* every match.
RECURSIVE section_matches(_, _, _)
section_matches(html, low, pos) ==
    LET d == Find(low, DivOpen, pos)
        m == SectionMatchAt(low, d)
    IN  IF d = 0 THEN <<>>
        ELSE IF m.n > 0
             THEN <<SubSeq(html, m.n, m.e - 1)>> \o section_matches(html, low, m.stop)
             ELSE section_matches(html, low, d + 1)

\* DoctolibScraper._parse_doctor_section, with the caller's
\* `if doctor and doctor.name`: a list of one record, or empty.
parse_doctor_section(section_html) ==
    LET name == clean_text_basic(StripTags(section_html))
    IN  IF name = <<>> THEN <<>>
        ELSE <<DoctolibDoctor(name, SectionSpecialty, Unknown, None, None, None, None)>>

RECURSIVE section_doctors(_)
section_doctors(sections) ==
    IF sections = <<>> THEN <<>>
    ELSE parse_doctor_section(Head(sections)) \o section_doctors(Tail(sections))

SpecialtyWords ==
    << {<<"g", "a", "s", "t", "r", "o">>},
       {<<"e", "n", "t", "é", "r", "o", "l", "o", "g", "u", "e">>},
       {<<"c", "e", "n", "t", "r", "e", " ", "d", "e", " ", "s", "a", "n", "t", "é">>} >>

\* The first of the patterns, in their order, that matches: its cleaned group.
RECURSIVE FirstPattern(_, _, _, _)
FirstPattern(text, low, patterns, default) ==
    IF patterns = <<>> THEN default
    ELSE LET m == PSearch(low, 1, Head(patterns).digit, Head(patterns).words)
         IN  IF m.i > 0 THEN clean_text_basic(StripTags(PGroup(text, m)))
             ELSE FirstPattern(text, low, Tail(patterns), default)

\* DoctolibScraper._parse_doctor_context: distance goes to the phone field
\* and the sector text to the rating field, both uncleaned.
parse_doctor_context(name, context_html) ==
    LET low == LowerStr(context_html)
        specialty == FirstPattern(context_html, low,
                        [i \in 1..3 |-> [digit |-> FALSE, words |-> SpecialtyWords[i]]], Unknown)
        address == FirstPattern(context_html, low,
                        << [digit |-> TRUE, words |-> StreetWords4],
                           [digit |-> FALSE, words |-> StreetWords4] >>, Unknown)
        distance == SpanKm(context_html, 1)
        sec == PSearch(low, 1, FALSE, Conventionne)
        sector_info == IF sec.i = 0 THEN None ELSE PGroup(context_html, sec)
    IN  DoctolibDoctor(name, specialty, address, distance, sector_info, None, None)

\* re.search(f'<h2><button[^>]*>{re.escape(name)}</button></h2>(.*?)(?=<h2><button|$)',
\* html, DOTALL | IGNORECASE): the context of the first heading that carries
\* this name, as a list of one string, or empty.
RECURSIVE name_context(_, _, _, _)
name_context(html, low, name, pos) ==
    LET h == Find(low, H2ButtonOpen, pos)
        n == HeadingOpenEnd(low, h)
        lit == LowerStr(name) \o CloseHeading
        nx == Find(low, H2ButtonOpen, n + Len(lit))
        stop == IF nx = 0 THEN Len(html) + 1 ELSE nx
    IN  IF h = 0 \/ n = 0 THEN <<>>
        ELSE IF MatchAt(low, lit, n) THEN <<SubSeq(html, n + Len(lit), stop - 1)>>
        ELSE name_context(html, low, name, h + 1)

\* Lines 155-166: the loop over name_matches.
RECURSIVE context_doctors(_, _, _)
context_doctors(html, low, names) ==
    IF names = <<>> THEN <<>>
    ELSE LET name == Head(names)
             clean_name == clean_text_basic(StripTags(name))
             ctx == name_context(html, low, name, 1)
         IN  (IF clean_name # <<>> /\ ctx # <<>>
              THEN <<parse_doctor_context(clean_name, ctx[1])>>
              ELSE <<>>)
             \o context_doctors(html, low, Tail(names))

\* DoctolibScraper._extract_doctors_from_html.
extract_doctors_from_html(html) ==
    LET low == LowerStr(html)
        doctors == section_doctors(section_matches(html, low, 1))
    IN  IF doctors = <<>> /\ name_matches(html, low, 1) # <<>>
        THEN context_doctors(html, low, name_matches(html, low, 1))
        ELSE doctors

(***************************************************************************)
(* The markup passes on pages of up to MaxHeadings listing cards.  A card  *)
(* is a name heading, with or without attributes on its button, with or    *)
(* without four wrapping divs, followed by its body.                       *)
(***************************************************************************)
Div4 == <<"<", "d", "i", "v", ">", "<", "d", "i", "v", ">",
          "<", "d", "i", "v", ">", "<", "d", "i", "v", ">">>
ButtonAttrs == <<" ", "c", "l", "a", "s", "s", "=", "\"", "x", "\"">>

BodyFull ==
    POpen \o <<"G", "a", "s", "t", "r", "o">> \o PClose
    \o POpen \o <<"1", "2", " ", "R", "u", "e", " ", "X">> \o PClose
    \o SpanOpen \o <<"3", " ", "k", "m">> \o SpanClose
    \o POpen \o <<"C", "o", "n", "v", "e", "n", "t", "i", "o", "n", "n", "é">> \o PClose

BodyPostal == POpen \o <<"7", "5", "0", "1", "2", " ", "P", "a", "r", "i", "s">> \o PClose

CardNames == {DrA, NotreEntreprise, <<" ">>}
CardBodies == {<<>>, BodyFull, BodyPostal}

Cards == [wrapped : BOOLEAN, attrs : BOOLEAN, name : CardNames, body : CardBodies]

RenderCard(c) ==
    (IF c.wrapped THEN Div4 ELSE <<>>)
    \o H2ButtonOpen \o (IF c.attrs THEN ButtonAttrs ELSE <<>>) \o <<">">>
    \o c.name \o CloseHeading \o c.body
    \o (IF c.wrapped THEN CloseDiv4 ELSE <<>>)

RECURSIVE Render(_)
Render(cards) == IF cards = <<>> THEN <<>> ELSE RenderCard(Head(cards)) \o Render(Tail(cards))

InitHtml ==
    /\ call = "none" /\ arg \in StringsUpTo(Cards, MaxHeadings) /\ ret = <<>>
    /\ RunIdle

ExtractImproved ==
    /\ call = "none"
    /\ call' = "_extract_doctors_from_cleaned_html"
    /\ ret' = extract_doctors_from_cleaned_html(Render(arg))
    /\ UNCHANGED <<arg, runvars>>

ExtractDoctolib ==
    /\ call = "none"
    /\ call' = "_extract_doctors_from_html"
    /\ ret' = extract_doctors_from_html(Render(arg))
    /\ UNCHANGED <<arg, runvars>>

NextHtml == ExtractImproved \/ ExtractDoctolib

SpecHtml == InitHtml /\ [][NextHtml]_vars

NamesOf(doctors) == [i \in 1..Len(doctors) |-> doctors[i].name]

\* The page's markup has exactly two name headings, "Dr A" and "Notre entreprise".
TwoHeadingsDrAAndBoilerplate ==
    /\ Len(arg) = 2
    /\ {arg[1].name, arg[2].name} = {DrA, NotreEntreprise}

\* C8: markup with exactly the two name headings "Dr A" and "Notre
\* entreprise" yields exactly one record, named "Dr A", from the markup
\* (regex) extraction passes.
C8_BoilerplateHeadingFiltered ==
    (call \in {"_extract_doctors_from_cleaned_html", "_extract_doctors_from_html"}
       /\ TwoHeadingsDrAAndBoilerplate)
    => NamesOf(ret) = <<DrA>>

(***************************************************************************)
(* A whole run: main, scrape_all_pages and scrape_page.  variant "final"   *)
(* is final_doctolib_scraper.py (structured extraction through             *)
(* utils.extract_doctor); variant "doctolib" is configurable_scraper.main  *)
(* driving doctolib_scraper.DoctolibScraper (structured pass with the      *)
(* regex passes as fallback); config_based_scraper.main drives the same    *)
(* class from a configuration file, its runs are the ones whose arg has a  *)
(* file.  The site, the browser and the file system are the environment:   *)
(* their answers are chosen by the actions.                                *)
(***************************************************************************)
ExampleUrl ==
    <<"h", "t", "t", "p", "s", ":", "/", "/", "e", "x", "a", "m", "p", "l", "e", ".",
      "t", "e", "s", "t", "/", "s", "e", "a", "r", "c", "h", "?", "l", "o", "c", "a",
      "t", "i", "o", "n", "=", "p", "a", "r", "i", "s">>
PagedUrl ==
    <<"h", "t", "t", "p", "s", ":", "/", "/", "e", "x", "a", "m", "p", "l", "e", ".",
      "t", "e", "s", "t", "/", "s", "e", "a", "r", "c", "h", "?", "p", "a", "g", "e",
      "=", "5">>
NoHostUrl == <<"p", "a", "r", "i", "s">>
EmptyUrl == <<>>
Http == <<"h", "t", "t", "p">>
SchemeSep == <<":", "/", "/">>

StartsWith(s, prefix) == Len(s) >= Len(prefix) /\ SubSeq(s, 1, Len(prefix)) = prefix

\* urlparse(url).netloc is non-empty: a scheme, "//" and a host character.
HasNetloc(url) ==
    /\ Contains(url, SchemeSep)
    /\ FindFirst(url, SchemeSep) > 1
    /\ Len(url) >= FindFirst(url, SchemeSep) + 3
    /\ url[FindFirst(url, SchemeSep) + 3] \notin {"/", "?", "#"}

validate_url(url) ==
    IF ~HasNetloc(url) THEN [raised |-> TRUE, url |-> <<>>]
    ELSE [raised |-> FALSE, url |-> clean_base_url(url)]

\* urljoin(base, ref) for a reference without scheme: a path that starts with
\* "/" replaces the path of base, any other path replaces its last segment.
PathStart(base) ==
    LET h == FindFirst(base, SchemeSep) + 3
        rest == SubSeq(base, h, Len(base))
    IN  IF Contains(rest, <<"/">>) THEN h + FindFirst(rest, <<"/">>) - 1 ELSE Len(base) + 1
LastSlash(s) ==
    IF \E i \in 1..Len(s) : s[i] = "/"
    THEN CHOOSE i \in 1..Len(s) : s[i] = "/" /\ \A j \in (i + 1)..Len(s) : s[j] # "/"
    ELSE 0
urljoin(base, ref) ==
    LET nq == SplitHead(base, <<"?">>)
    IN  IF StartsWith(ref, <<"/">>) THEN SubSeq(nq, 1, PathStart(nq) - 1) \o ref
        ELSE IF PathStart(nq) > Len(nq) THEN nq \o <<"/">> \o ref
        ELSE SubSeq(nq, 1, LastSlash(nq)) \o ref

\* What one fetch of a page answers: kind is the page load (crawler.arun
\* raises, reports failure, or succeeds), ext the structured extraction of
\* the doctolib variant's second arun, content the extracted JSON text and
\* html the cards of result.cleaned_html.
RunItems == {Item(JStr(DrA), Absent), Item(JStr(DrB), Absent)}
RunBatches ==
    {JsonList(<<a>>) : a \in RunItems}
    \cup {JsonList(<<Item(JStr(DrA), Absent), b>>) : b \in RunItems}
PlainCard(name) == [wrapped |-> FALSE, attrs |-> FALSE, name |-> name, body |-> <<>>]
RunMarkups == {<<>>, <<PlainCard(DrA)>>}
NoAnswer == [kind |-> "none", ext |-> "none", content |-> Malformed, html |-> <<>>]
\* Content without records comes with either markup, a batch of records with
\* the markup of one card.
Answers(v) ==
    [kind : {"raise", "fail"}, ext : {"none"}, content : {Malformed}, html : {<<>>}]
    \cup [kind : {"ok"}, ext : {"ok"}, content : {Malformed, JsonList(<<>>)}, html : RunMarkups]
    \cup [kind : {"ok"}, ext : {"ok"}, content : RunBatches, html : {<<PlainCard(DrA)>>}]
    \cup IF v = "doctolib"
         THEN [kind : {"ok"}, ext : {"fail"}, content : {Malformed}, html : RunMarkups]
              \cup [kind : {"ok"}, ext : {"raise"}, content : {Malformed}, html : {<<>>}]
         ELSE {}

\* bool(extracted_data) in final_doctolib_scraper.scrape_page.
Truthy(content) ==
    CASE content.top = "list" -> content.items # <<>>
      [] content.top = "dict" -> DOMAIN content.items[1].fields # {}
      [] OTHER -> TRUE

\* final_doctolib_scraper.scrape_page below the session: extract_doctor
\* returns None when arun reports failure, raises when arun raises or
\* json.loads rejects the content (caught by scrape_page's handler); the data
\* is serialised again and parsed by _parse_extracted_data.
json_dumps(data) == [data EXCEPT !.wf = TRUE]
final_page_doctors(ans) ==
    IF ans.kind # "ok" THEN <<>>
    ELSE IF ~ans.content.wf THEN <<>>
    ELSE IF ~Truthy(ans.content) THEN <<>>
    ELSE parse_extracted_data(json_dumps(ans.content))

\* doctolib_scraper._clean_text on a JSON value: a falsy value gives "", a
\* non-string truthy value has no strip() and raises.
clean_text_basic_value(v) ==
    IF v.k \in {"null", "falsy"} THEN [raised |-> FALSE, s |-> <<>>]
    ELSE IF v.k = "str" THEN [raised |-> FALSE, s |-> clean_text_basic(v.s)]
    ELSE [raised |-> TRUE, s |-> <<>>]

Falsy == <<"Falsy">>
\* item.get('profile_url', ''), made absolute against the page URL.
profile_url_of(item, url) ==
    LET v == Get(item, "profile_url", <<>>)
    IN  CASE v.k = "null" -> [raised |-> FALSE, s |-> None]
          [] v.k = "falsy" -> [raised |-> FALSE, s |-> Falsy]
          [] v.k = "truthy" -> [raised |-> TRUE, s |-> <<>>]
          [] OTHER -> [raised |-> FALSE,
                       s |-> IF v.s # <<>> /\ ~StartsWith(v.s, Http)
                             THEN urljoin(url, v.s) ELSE v.s]

\* bool(item.get('name')).
HasName(item) ==
    /\ "name" \in DOMAIN item.fields
    /\ \/ item.fields["name"].k = "truthy"
       \/ item.fields["name"].k = "str" /\ item.fields["name"].s # <<>>

\* One iteration of the structured loop of doctolib_scraper.scrape_page.
StructuredItem(item, url, doctors) ==
    IF ~item.dict \/ ~HasName(item) THEN [raised |-> FALSE, doctors |-> doctors]
    ELSE LET name == clean_text_basic_value(Get(item, "name", <<>>))
             specialty == clean_text_basic_value(Get(item, "specialty", Unknown))
             address == clean_text_basic_value(Get(item, "address", Unknown))
             phone == clean_text_basic_value(Get(item, "phone", <<>>))
             rating == clean_text_basic_value(Get(item, "rating", <<>>))
             availability == clean_text_basic_value(Get(item, "availability", <<>>))
             profile == profile_url_of(item, url)
         IN  IF \/ name.raised \/ specialty.raised \/ address.raised \/ phone.raised
                \/ rating.raised \/ availability.raised \/ profile.raised
             THEN [raised |-> TRUE, doctors |-> doctors]
             ELSE [raised |-> FALSE,
                   doctors |-> Append(doctors,
                                  DoctolibDoctor(name.s, specialty.s, address.s, phone.s,
                                                 rating.s, availability.s, profile.s))]

RECURSIVE StructuredItems(_, _, _)
StructuredItems(items, url, doctors) ==
    IF items = <<>> THEN [raised |-> FALSE, doctors |-> doctors]
    ELSE LET r == StructuredItem(Head(items), url, doctors)
         IN  IF r.raised THEN r ELSE StructuredItems(Tail(items), url, r.doctors)

\* The structured records are followed by the records of the markup passes.
html_fallback_merged(doctors, html) == doctors \o extract_doctors_from_html(html)

\* The regex fallback that keeps the structured records when there are some.
html_fallback(doctors, html) ==
    IF doctors = <<>> THEN extract_doctors_from_html(html) ELSE doctors

\* doctolib_scraper.scrape_page below the session: page load, structured
\* pass over the second arun's content, then the regex passes over the
\* cleaned markup when the structured pass produced nothing.  An exception
\* other than JSONDecodeError leaves the records appended so far.
doctolib_page_doctors(ans, url) ==
    IF ans.kind # "ok" \/ ans.ext = "raise" THEN <<>>
    ELSE IF ans.ext = "fail" \/ ~ans.content.wf \/ ans.content.top # "list"
         THEN html_fallback(<<>>, Render(ans.html))
    ELSE LET r == StructuredItems(ans.content.items, url, <<>>)
         IN  IF r.raised THEN r.doctors ELSE html_fallback(r.doctors, Render(ans.html))

\* llm_doctolib_scraper.py (and ollama_doctolib_scraper.py, which repeats it):
\* the record of the LLM scrapers and what their scrape_page makes of the
\* extracted content.  value.strip() raises on anything that is no string.
LlmDoctor(name, specialty, address, distance, sector_info, profile_url) ==
    [name |-> name, specialty |-> specialty, address |-> address, distance |-> distance,
     sector_info |-> sector_info, profile_url |-> profile_url]

strip_value(v) ==
    IF v.k = "str" THEN [raised |-> FALSE, s |-> Strip(v.s)] ELSE [raised |-> TRUE, s |-> <<>>]

\* One iteration of the loop over data_list.
LlmItem(item, doctors) ==
    IF ~item.dict \/ ~HasName(item) THEN [raised |-> FALSE, doctors |-> doctors]
    ELSE LET name == strip_value(Get(item, "name", <<>>))
             specialty == strip_value(Get(item, "specialty", Unknown))
             address == strip_value(Get(item, "address", Unknown))
             distance == strip_value(Get(item, "distance", <<>>))
             sector_info == strip_value(Get(item, "sector_info", <<>>))
             profile_url == strip_value(Get(item, "profile_url", <<>>))
         IN  IF \/ name.raised \/ specialty.raised \/ address.raised
                \/ distance.raised \/ sector_info.raised \/ profile_url.raised
             THEN [raised |-> TRUE, doctors |-> doctors]
             ELSE IF name.s = <<>> \/ name.s = Unknown
             THEN [raised |-> FALSE, doctors |-> doctors]
             ELSE [raised |-> FALSE,
                   doctors |-> Append(doctors,
                                  LlmDoctor(name.s, specialty.s, address.s, OrNone(distance.s),
                                            OrNone(sector_info.s), OrNone(profile_url.s)))]

RECURSIVE LlmItems(_, _)
LlmItems(items, doctors) ==
    IF items = <<>> THEN [raised |-> FALSE, doctors |-> doctors]
    ELSE LET r == LlmItem(Head(items), doctors)
         IN  IF r.raised THEN r ELSE LlmItems(Tail(items), r.doctors)

\* scrape_page of the LLM scrapers below the session: a failed or raised
\* fetch and content json.loads rejects give no record; an exception in the
\* loop is caught by the outer handler, which leaves the records built so far.
llm_page_doctors(ans) ==
    IF ans.kind # "ok" \/ ~ans.content.wf \/ ans.content.top = "other" THEN <<>>
    ELSE LlmItems(ans.content.items, <<>>).doctors

\* The answers given to the LLM scrapers: one item or two, among them a name
\* of whitespace only and a distance that is no string.
BlankName == Item(JStr(<<" ">>), Absent)
NumericDistance == Item(JStr(DrB), JTruthy)
LlmBatches ==
    {JsonList(<<a>>) : a \in RunItems \cup {BlankName, NumericDistance}}
    \cup {JsonList(<<Item(JStr(DrA), Absent), b>>) : b \in {Item(JStr(DrB), Absent), NumericDistance}}
LlmAnswers ==
    [kind : {"raise", "fail"}, ext : {"none"}, content : {Malformed}, html : {<<>>}]
    \cup [kind : {"ok"}, ext : {"ok"}, content : {Malformed, JsonList(<<>>)} \cup LlmBatches,
          html : {<<>>}]

page_doctors_of(v, ans, url) ==
    CASE v = "doctolib" -> doctolib_page_doctors(ans, url)
      [] v = "llm" -> llm_page_doctors(ans)
      [] OTHER -> final_page_doctors(ans)

\* The answers a fetch of variant v can get.
AnswersOf(v) == IF v = "llm" THEN LlmAnswers ELSE Answers(v)

\* The requests one fetch sends: the doctolib variant loads the page and, when
\* the load succeeded, asks for the extraction with a second arun.
requests_of(v, ans, url) ==
    IF v = "doctolib" /\ ans.kind = "ok" THEN <<url, url>> ELSE <<url>>

\* What the run did with one page: how the fetch ended, the content and
\* markup it answered and the records scrape_page returned.
LogEntry(n, outcome, ans, doctors) ==
    [page |-> n, outcome |-> outcome, ext |-> ans.ext, wf |-> ans.content.wf,
     html |-> ans.html, returned |-> doctors]

\* The command lines of a run: the final variant takes a URL and a page
\* count, the configurable one also the two switches that skip an output.
RunUrls == {ExampleUrl, PagedUrl, NoHostUrl}
RunArgs ==
    [variant : {"final", "doctolib"}, url : RunUrls, pages : 0..MaxPages,
     no_json : {FALSE}, no_csv : {FALSE}]
    \cup [variant : {"doctolib"}, url : {ExampleUrl}, pages : 1..MaxPages,
          no_json : BOOLEAN, no_csv : BOOLEAN]
    \cup [variant : {"final", "doctolib"}, url : {EmptyUrl}, pages : 0..1,
          no_json : {FALSE}, no_csv : {FALSE}]

\* The configuration files of config_based_scraper: file is "missing", not
\* JSON ("malformed"), a JSON object without base_url ("no_base_url"), or an
\* object with base_url url and max_pages pages ("ok").
ConfigArgs ==
    [file : {"missing", "malformed", "no_base_url"}, url : {EmptyUrl}, pages : {1}]
    \cup [file : {"ok"}, url : {ExampleUrl, PagedUrl, EmptyUrl}, pages : 0..1]
ConfigRun == "file" \in DOMAIN arg

Init ==
    /\ call = "main" /\ ret = <<>>
    /\ \/ \E a \in RunArgs :
             /\ arg = [url |-> a.url, pages |-> a.pages]
             /\ variant = a.variant
             /\ no_json = a.no_json /\ no_csv = a.no_csv
             /\ pc = "main"
       \/ /\ arg \in ConfigArgs
          /\ variant = "doctolib"
          /\ no_json = FALSE /\ no_csv = FALSE
          /\ pc = "load_config"
    /\ base_url = <<>> /\ max_pages = 0 /\ page_num = 0
    /\ page_url = <<>> /\ page_doctors = <<>> /\ all_doctors = <<>>
    /\ self_doctors = <<>> /\ fetched = NoAnswer /\ requested = <<>>
    /\ attempted = <<>> /\ page_log = <<>> /\ delays = <<>>
    /\ opened = 0 /\ released = 0 /\ saves = <<>> /\ exit_code = -1
    /\ ExtIdle

\* for page_num in range(1, self.max_pages + 1): the first iteration, or the
\* end of the loop when the range is empty.
EnterLoop(maxp) ==
    /\ pc' = IF maxp >= 1 THEN "scrape_page" ELSE "returned"
    /\ page_num' = IF maxp >= 1 THEN 1 ELSE 0
    /\ UNCHANGED <<page_url, page_doctors, all_doctors, self_doctors, fetched, requested,
                   attempted, page_log, delays, opened, released, saves, exit_code>>

\* final_doctolib_scraper.main: the constructor strips the page parameter,
\* no input is validated, and scrape_all_pages starts.
StartFinal ==
    /\ pc = "main" /\ variant = "final"
    /\ base_url' = clean_base_url(arg.url)
    /\ max_pages' = arg.pages
    /\ EnterLoop(arg.pages)
    /\ UNCHANGED <<call, arg, ret, variant, no_json, no_csv, extvars>>

\* configurable_scraper.main: validate_url and the pages check exit with
\* status 1 before a scraper exists; otherwise scrape_all_pages starts.
StartConfigurable ==
    /\ pc = "main" /\ variant = "doctolib"
    /\ IF validate_url(arg.url).raised \/ arg.pages < 1
       THEN /\ pc' = "exit" /\ exit_code' = 1
            /\ UNCHANGED <<base_url, max_pages, page_num, page_url, page_doctors,
                           all_doctors, self_doctors, fetched, requested, attempted,
                           page_log, delays, opened, released, saves>>
       ELSE /\ base_url' = validate_url(arg.url).url
            /\ max_pages' = arg.pages
            /\ EnterLoop(arg.pages)
    /\ UNCHANGED <<call, arg, ret, variant, no_json, no_csv, extvars>>

\* config_based_scraper.load_config: a missing file and a file that is not
\* JSON exit with status 1.
LoadConfig ==
    /\ pc = "load_config"
    /\ IF arg.file \in {"missing", "malformed"}
       THEN pc' = "exit" /\ exit_code' = 1
       ELSE pc' = "validate_config" /\ UNCHANGED exit_code
    /\ UNCHANGED <<purevars, extvars, variant, no_json, no_csv, base_url, max_pages, page_num,
                   page_url, page_doctors, all_doctors, self_doctors, fetched, requested,
                   attempted, page_log, delays, opened, released, saves>>

\* config_based_scraper.validate_config and the construction of the scraper:
\* a configuration without base_url or with max_pages below 1 raises
\* ValueError, which main's handler turns into exit status 1; any base_url,
\* the empty one included, is accepted and stored as it is.
ValidateConfig ==
    /\ pc = "validate_config"
    /\ IF arg.file = "no_base_url" \/ arg.pages < 1
       THEN /\ pc' = "exit" /\ exit_code' = 1
            /\ UNCHANGED <<base_url, max_pages, page_num, page_url, page_doctors,
                           all_doctors, self_doctors, fetched, requested, attempted,
                           page_log, delays, opened, released, saves>>
       ELSE /\ base_url' = arg.url
            /\ max_pages' = arg.pages
            /\ EnterLoop(arg.pages)
    /\ UNCHANGED <<call, arg, ret, variant, no_json, no_csv, extvars>>

\* A handler that abandons the loop: the run ends at the first page that raises.
except_break(page, maxp) == "returned"

\* except Exception: continue -- the loop goes on with the next page, and
\* ends when the page was the last one.
except_continue(page, maxp) == IF page < maxp THEN "scrape_page" ELSE "returned"

\* A session closed by hand after the try: an answer that raised leaves it open.
release_unless_raised(n, ans) == IF ans.kind = "raise" THEN n ELSE n + 1

\* async with AsyncWebCrawler(...): leaving the block releases the session,
\* whatever the body did.
release_on_exit(n, ans) == n + 1

\* A loop that gives up at the first page without records.
more_pages_while_found(page, maxp, doctors) == page < maxp /\ doctors # <<>>

\* A loop that also pauses after the last page and goes on to the next one.
more_pages_inclusive(page, maxp, doctors) == page <= maxp

\* if page_num < self.max_pages: another iteration follows, whatever the page
\* returned.
more_pages(page, maxp, doctors) == page < maxp

\* scrape_page(page_num) is called: the page URL is built and the browser
\* session is entered.
OpenSession ==
    /\ pc = "scrape_page"
    /\ attempted' = Append(attempted, page_num)
    /\ page_url' = build_page_url(base_url, page_num)
    /\ page_doctors' = <<>>
    /\ opened' = opened + 1
    /\ pc' = "fetch"
    /\ UNCHANGED <<purevars, extvars, variant, no_json, no_csv, base_url, max_pages, page_num,
                   all_doctors, self_doctors, fetched, requested, page_log, delays,
                   released, saves, exit_code>>

\* Entering the session raises: the with statement is outside scrape_page's
\* try, so the exception reaches the handler of scrape_all_pages, which
\* continues with the next page without the delay.
OpenSessionFails ==
    /\ pc = "scrape_page"
    /\ attempted' = Append(attempted, page_num)
    /\ page_url' = build_page_url(base_url, page_num)
    /\ page_doctors' = <<>>
    /\ page_log' = Append(page_log, LogEntry(page_num, "open_raised", NoAnswer, <<>>))
    /\ pc' = except_continue(page_num, max_pages)
    /\ page_num' = IF pc' = "scrape_page" THEN page_num + 1 ELSE page_num
    /\ self_doctors' = IF pc' = "returned" THEN all_doctors ELSE self_doctors
    /\ UNCHANGED <<purevars, extvars, variant, no_json, no_csv, base_url, max_pages, all_doctors,
                   fetched, requested, delays, opened, released, saves, exit_code>>

\* The body of the session: the page is requested and its records extracted;
\* every exception is caught inside scrape_page.
Fetch ==
    /\ pc = "fetch"
    /\ \E ans \in AnswersOf(variant) :
          /\ fetched' = ans
          /\ requested' = requested \o requests_of(variant, ans, page_url)
          /\ page_doctors' = page_doctors_of(variant, ans, page_url)
    /\ pc' = "close"
    /\ UNCHANGED <<purevars, extvars, variant, no_json, no_csv, base_url, max_pages, page_num,
                   page_url, all_doctors, self_doctors, attempted, page_log, delays,
                   opened, released, saves, exit_code>>

\* A variant that puts the records of a page in front of the accumulated list.
ClosePagePrepending ==
    /\ pc = "close"
    /\ released' = release_on_exit(released, fetched)
    /\ all_doctors' = page_doctors \o all_doctors
    /\ page_log' = Append(page_log, LogEntry(page_num, fetched.kind, fetched, page_doctors))
    /\ fetched' = NoAnswer
    /\ pc' = IF more_pages(page_num, max_pages, page_doctors) THEN "sleep" ELSE "returned"
    /\ self_doctors' = IF pc' = "sleep" THEN self_doctors ELSE all_doctors'
    /\ UNCHANGED <<purevars, extvars, variant, no_json, no_csv, base_url, max_pages, page_num,
                   page_url, page_doctors, requested, attempted, delays, opened, saves,
                   exit_code>>

\* The session is left, scrape_page returns and the loop extends the
\* accumulated list; a delay follows unless the page was the last one, where
\* the loop ends and self.doctors is assigned.
ClosePage ==
    /\ pc = "close"
    /\ released' = release_on_exit(released, fetched)
    /\ all_doctors' = all_doctors \o page_doctors
    /\ page_log' = Append(page_log, LogEntry(page_num, fetched.kind, fetched, page_doctors))
    /\ fetched' = NoAnswer
    /\ pc' = IF more_pages(page_num, max_pages, page_doctors) THEN "sleep" ELSE "returned"
    /\ self_doctors' = IF pc' = "sleep" THEN self_doctors ELSE all_doctors'
    /\ UNCHANGED <<purevars, extvars, variant, no_json, no_csv, base_url, max_pages, page_num,
                   page_url, page_doctors, requested, attempted, delays, opened, saves,
                   exit_code>>

\* await asyncio.sleep(2) between two pages.
Sleep ==
    /\ pc = "sleep"
    /\ delays' = Append(delays, page_num)
    /\ page_num' = page_num + 1
    /\ pc' = "scrape_page"
    /\ UNCHANGED <<purevars, extvars, variant, no_json, no_csv, base_url, max_pages, page_url,
                   page_doctors, all_doctors, self_doctors, fetched, requested, attempted,
                   page_log, opened, released, saves, exit_code>>

\* A keyboard interrupt while the run waits for a fetch or for the delay.  It
\* is no Exception, so it passes the handlers of scrape_page and
\* scrape_all_pages (the session in use is left on the way) and reaches main:
\* the final variant prints a message and returns, the configurable one exits
\* with status 1.  The accumulated list is a local of scrape_all_pages and
\* nothing is saved.
Interrupt ==
    /\ pc \in {"fetch", "sleep"}
    /\ released' = IF pc = "fetch" THEN release_on_exit(released, NoAnswer) ELSE released
    /\ pc' = "exit"
    /\ exit_code' = IF variant = "final" THEN 0 ELSE 1
    /\ UNCHANGED <<purevars, extvars, variant, no_json, no_csv, base_url, max_pages, page_num,
                   page_url, page_doctors, all_doctors, self_doctors, fetched, requested,
                   attempted, page_log, delays, opened, saves>>

\* main after scrape_all_pages: an empty result ends the run (the final
\* variant returns, the configurable one exits with status 1), otherwise
\* the summary is printed and the result saved.
CheckResult ==
    /\ pc = "returned"
    /\ IF self_doctors = <<>>
       THEN /\ pc' = "exit"
            /\ exit_code' = IF variant = "final" THEN 0 ELSE 1
       ELSE /\ pc' = "save_json"
            /\ UNCHANGED exit_code
    /\ UNCHANGED <<purevars, extvars, variant, no_json, no_csv, base_url, max_pages, page_num,
                   page_url, page_doctors, all_doctors, self_doctors, fetched, requested,
                   attempted, page_log, delays, opened, released, saves>>

\* An exception of a save reaches main's handler: the final and the LLM
\* variants print it and return, the configurable one exits with status 1
\* (as does the driver test_with_ratings.py, which has no handler).
SaveFailed ==
    /\ pc' = "exit"
    /\ exit_code' = IF variant \in {"final", "llm"} THEN 0 ELSE 1

\* save_to_json, skipped by --no-json.
SaveJson ==
    /\ pc = "save_json"
    /\ IF no_json
       THEN /\ pc' = "save_csv"
            /\ UNCHANGED <<saves, exit_code>>
       ELSE \E ok \in BOOLEAN :
               /\ saves' = Append(saves, [file |-> "json", ok |-> ok, doctors |-> self_doctors])
               /\ IF ok THEN pc' = "save_csv" /\ UNCHANGED exit_code ELSE SaveFailed
    /\ UNCHANGED <<purevars, extvars, variant, no_json, no_csv, base_url, max_pages, page_num,
                   page_url, page_doctors, all_doctors, self_doctors, fetched, requested,
                   attempted, page_log, delays, opened, released>>

\* save_to_csv, skipped by --no-csv; main then returns, the LLM variant
\* after save_schema.
SaveCsv ==
    /\ pc = "save_csv"
    /\ IF no_csv
       THEN /\ pc' = "exit" /\ exit_code' = 0
            /\ UNCHANGED saves
       ELSE \E ok \in BOOLEAN :
               /\ saves' = Append(saves, [file |-> "csv", ok |-> ok, doctors |-> self_doctors])
               /\ IF ~ok THEN SaveFailed
                  ELSE IF variant = "llm" THEN pc' = "save_schema" /\ UNCHANGED exit_code
                  ELSE pc' = "exit" /\ exit_code' = 0
    /\ UNCHANGED <<purevars, extvars, variant, no_json, no_csv, base_url, max_pages, page_num,
                   page_url, page_doctors, all_doctors, self_doctors, fetched, requested,
                   attempted, page_log, delays, opened, released>>

Next ==
    \/ StartFinal
    \/ StartConfigurable
    \/ LoadConfig
    \/ ValidateConfig
    \/ OpenSession
    \/ OpenSessionFails
    \/ Fetch
    \/ ClosePage
    \/ Sleep
    \/ Interrupt
    \/ CheckResult
    \/ SaveJson
    \/ SaveCsv

Spec == Init /\ [][Next]_vars

(***************************************************************************)
(* Properties of a whole run.                                              *)
(***************************************************************************)
Returned == pc = "returned"        \* scrape_all_pages has just returned
PageUrls(pages) == [i \in 1..Len(pages) |-> build_page_url(base_url, pages[i])]
RECURSIVE OpenedPages(_)
OpenedPages(log) ==
    IF log = <<>> THEN <<>>
    ELSE (IF Head(log).outcome = "open_raised" THEN <<>> ELSE <<Head(log).page>>)
         \o OpenedPages(Tail(log))
ExamplePage1 == ExampleUrl \o <<"&", "p", "a", "g", "e", "=", "1">>
ExamplePage2 == ExampleUrl \o <<"&", "p", "a", "g", "e", "=", "2">>

\* C1 (as stated): when scrape_all_pages of the final variant returns, the
\* requested URLs are exactly _build_page_url(1), ..., _build_page_url(N),
\* each once and in increasing page order; for the example base URL and N = 2
\* they are ...&page=1 then ...&page=2.
C1_RequestsEveryPageOnce ==
    (variant = "final" /\ Returned) =>
        /\ requested = PageUrls([n \in 1..max_pages |-> n])
        /\ (arg.url = ExampleUrl /\ max_pages = 2) => requested = <<ExamplePage1, ExamplePage2>>

\* C1 (amended): when scrape_all_pages of the final variant returns, the
\* requested URLs are those of the pages whose browser session started, each
\* once and in increasing page order, every page 1..N having been attempted
\* in order; a page whose session failed to start is skipped without a
\* request.  For the example base URL and N = 2, with both sessions started,
\* the requests are exactly ...&page=1 then ...&page=2.
C1_RequestsOpenedPagesInOrder ==
    (variant = "final" /\ Returned) =>
        /\ attempted = [n \in 1..max_pages |-> n]
        /\ [i \in 1..Len(page_log) |-> page_log[i].page] = attempted
        /\ requested = PageUrls(OpenedPages(page_log))
        /\ \A i, j \in 1..Len(OpenedPages(page_log)) :
              i < j => OpenedPages(page_log)[i] < OpenedPages(page_log)[j]
        /\ (arg.url = ExampleUrl /\ max_pages = 2 /\ Len(OpenedPages(page_log)) = 2)
              => requested = <<ExamplePage1, ExamplePage2>>

C1_Witness ==
    /\ variant = "final" /\ Returned
    /\ arg.url = ExampleUrl /\ max_pages = 2
    /\ requested = <<ExamplePage1, ExamplePage2>>

RECURSIVE ReturnedRecords(_)
ReturnedRecords(log) ==
    IF log = <<>> THEN <<>> ELSE Head(log).returned \o ReturnedRecords(Tail(log))

\* C2: a page that fails (the session does not start, the fetch raises or
\* reports failure) never keeps another page from being attempted or its
\* records from the returned list: when scrape_all_pages returns, every page
\* 1..N has been attempted and the list is made of the records every page
\* returned, in page order.
C2_FailureDoesNotStopOtherPages ==
    Returned =>
        /\ attempted = [n \in 1..max_pages |-> n]
        /\ [i \in 1..Len(page_log) |-> page_log[i].page] = attempted
        /\ all_doctors = ReturnedRecords(page_log)
        /\ self_doctors = all_doctors

C2_Witness ==
    /\ variant = "final" /\ Returned /\ max_pages = 3 /\ Len(page_log) = 3
    /\ page_log[2].outcome = "raise"
    /\ page_log[1].returned # <<>> /\ page_log[3].returned # <<>>
    /\ self_doctors = page_log[1].returned \o page_log[3].returned

\* C4: when scrape_all_pages of the final variant returns, no two records of the
\* result carry the same name, whether the entries came from one page or from
\* two: every name of the result is the name of exactly one record.
C4_OneRecordPerName ==
    (variant = "final" /\ Returned) =>
        \A i, j \in 1..Len(self_doctors) :
            self_doctors[i].name = self_doctors[j].name => i = j

\* C7: a page whose structured content is malformed JSON gets the records
\* the regex passes find in its markup, so a page with a name heading never
\* contributes zero records because the content was malformed.
C7_MalformedFallsBackToRegex ==
    \A i \in 1..Len(page_log) :
        (page_log[i].outcome = "ok" /\ page_log[i].ext = "ok" /\ ~page_log[i].wf) =>
            /\ NamesOf(page_log[i].returned)
                  = NamesOf(extract_doctors_from_html(Render(page_log[i].html)))
            /\ (\E c \in 1..Len(page_log[i].html) : Strip(page_log[i].html[c].name) # <<>>)
                  => page_log[i].returned # <<>>

\* The run ended by an interrupt: it exited before the last page was done.
Interrupted == pc = "exit" /\ Len(page_log) < max_pages

\* C9: a run interrupted after records were accumulated still attempts to
\* write them to an output file before it ends.
C9_InterruptStillPersists ==
    (Interrupted /\ all_doctors # <<>>) =>
        \E i \in 1..Len(saves) : saves[i].doctors = all_doctors

SaveAttempted(file) == \E i \in 1..Len(saves) : saves[i].file = file
SaveRaised(file) == \E i \in 1..Len(saves) : saves[i].file = file /\ ~saves[i].ok

\* C10: with both outputs requested, a run that ended after one write failed
\* has attempted the other write too.
C10_SaveFailureIndependent ==
    (pc = "exit" /\ ~no_json /\ ~no_csv) =>
        /\ SaveRaised("json") => SaveAttempted("csv")
        /\ SaveRaised("csv") => SaveAttempted("json")

Star == "*"       \* stands for the star character U+2605 of the patterns
Lit(ws, lit) == [ws |-> ws, lit |-> lit]
rating_patterns ==
    << [pre |-> <<>>, dec |-> ",", post |-> <<Lit(TRUE, <<Star>>)>>],
       [pre |-> <<>>, dec |-> ".", post |-> <<Lit(TRUE, <<Star>>)>>],
       [pre |-> <<>>, dec |-> ",", post |-> <<Lit(TRUE, <<"é", "t", "o", "i", "l", "e">>)>>],
       [pre |-> <<>>, dec |-> ".", post |-> <<Lit(TRUE, <<"s", "t", "a", "r">>)>>],
       [pre |-> <<<<"n", "o", "t", "e">>, <<":">>>>, dec |-> ",", post |-> <<>>],
       [pre |-> <<<<"r", "a", "t", "i", "n", "g">>, <<":">>>>, dec |-> ".", post |-> <<>>],
       [pre |-> <<>>, dec |-> ",", post |-> <<Lit(FALSE, <<"/", "5">>)>>],
       [pre |-> <<>>, dec |-> ".", post |-> <<Lit(FALSE, <<"/", "5">>)>>],
       [pre |-> <<<<Star>>>>, dec |-> ",", post |-> <<>>],
       [pre |-> <<<<Star>>>>, dec |-> ".", post |-> <<>>],
       [pre |-> <<<<"n", "o", "t", "é">>>>, dec |-> ",", post |-> <<>>],
       [pre |-> <<<<"r", "a", "t", "e", "d">>>>, dec |-> ".", post |-> <<>>],
       [pre |-> <<>>, dec |-> ",",
        post |-> <<Lit(TRUE, <<"s", "u", "r">>), Lit(TRUE, <<"5">>)>>],
       [pre |-> <<>>, dec |-> ".",
        post |-> <<Lit(TRUE, <<"o", "u", "t">>), Lit(TRUE, <<"o", "f">>), Lit(TRUE, <<"5">>)>>] >>

\* \s* from i: the index of the first character that is no whitespace.
RECURSIVE SkipWs(_, _)
SkipWs(s, i) == IF i <= Len(s) /\ s[i] \in Whitespace THEN SkipWs(s, i + 1) ELSE i

\* \d+ from i, greedy: the index after the digits (i when there is none).
RECURSIVE DigitsEnd(_, _)
DigitsEnd(s, i) == IF i <= Len(s) /\ s[i] \in Digits THEN DigitsEnd(s, i + 1) ELSE i

\* (\d+ dec \d+) at i: the index after the number, 0 when there is none.
NumberEnd(s, i, dec) ==
    LET a == DigitsEnd(s, i)
    IN  IF a > i /\ a <= Len(s) /\ s[a] = dec /\ DigitsEnd(s, a + 1) > a + 1
        THEN DigitsEnd(s, a + 1) ELSE 0

\* The literals of pre at i: the index after them and their \s*, 0 on failure.
RECURSIVE PreEnd(_, _, _)
PreEnd(s, i, pre) ==
    IF pre = <<>> THEN i
    ELSE IF MatchAt(s, Head(pre), i)
         THEN PreEnd(s, SkipWs(s, i + Len(Head(pre))), Tail(pre))
         ELSE 0

RECURSIVE PostAt(_, _, _)
PostAt(s, i, post) ==
    \/ post = <<>>
    \/ LET j == IF Head(post).ws THEN SkipWs(s, i) ELSE i
       IN  /\ MatchAt(s, Head(post).lit, j)
           /\ PostAt(s, j + Len(Head(post).lit), Tail(post))

\* The pattern matched at i: [from, to) of its group, <<>> when it fails.
PatternAt(s, i, p) ==
    LET a == PreEnd(s, i, p.pre)
        b == IF a = 0 THEN 0 ELSE NumberEnd(s, a, p.dec)
    IN  IF b # 0 /\ PostAt(s, b, p.post) THEN <<a, b>> ELSE <<>>

\* re.findall(pattern, html, re.IGNORECASE)[0], <<>> when nothing matches.
first_rating(html, p) ==
    LET low == LowerStr(html)
        hits == {i \in 1..Len(html) : PatternAt(low, i, p) # <<>>}
    IN  IF hits = {} THEN <<>>
        ELSE LET i == CHOOSE h \in hits : \A k \in hits : h <= k
                 g == PatternAt(low, i, p)
             IN  <<SubSeq(html, g[1], g[2] - 1)>>

\* A variant in which the leftmost match of any pattern decides.
rating_from_leftmost(html, k) ==
    LET low == LowerStr(html)
        hits == {i \in 1..Len(html) :
                   \E p \in 1..Len(rating_patterns) : PatternAt(low, i, rating_patterns[p]) # <<>>}
    IN  IF hits = {} THEN None
        ELSE LET i == CHOOSE h \in hits : \A m \in hits : h <= m
                 p == CHOOSE q \in 1..Len(rating_patterns) :
                         PatternAt(low, i, rating_patterns[q]) # <<>>
                 g == PatternAt(low, i, rating_patterns[p])
             IN  SubSeq(html, g[1], g[2] - 1)

\* The loop over rating_patterns: the first pattern with a match decides.
RECURSIVE rating_from(_, _)
rating_from(html, k) ==
    IF k > Len(rating_patterns) THEN None
    ELSE IF first_rating(html, rating_patterns[k]) # <<>>
         THEN first_rating(html, rating_patterns[k])[1]
         ELSE rating_from(html, k + 1)

\* What one search answers in search_google_rating: None when the result
\* reports failure or has no html, else the rating found in it, or None.
rating_of(ans) ==
    IF ans.kind # "ok" \/ ans.html = <<>> THEN None ELSE rating_from(ans.html, 1)


\* The four search queries of search_google_rating, in the order of the list.
AvisGoogle == <<" ", "a", "v", "i", "s", " ", "g", "o", "o", "g", "l", "e">>
NoteEtoiles == <<" ", "n", "o", "t", "e", " ", "é", "t", "o", "i", "l", "e", "s">>
GastroAvis ==
    <<" ", "g", "a", "s", "t", "r", "o", "-", "e", "n", "t", "é", "r", "o", "l", "o", "g",
      "u", "e", " ", "p", "a", "r", "i", "s", " ", "a", "v", "i", "s">>
MedecinAvis == <<" ", "m", "é", "d", "e", "c", "i", "n", " ", "a", "v", "i", "s">>
search_queries(doctor_name) ==
    << doctor_name \o AvisGoogle,
       doctor_name \o NoteEtoiles,
       doctor_name \o GastroAvis,
       <<"\"">> \o doctor_name \o <<"\"">> \o MedecinAvis >>

\* hashlib.md5(doctor_name.encode()).hexdigest() for the names of the model.
DrC == <<"D", "r", " ", "C">>
md5_hexdigest(doctor_name) ==
    CASE doctor_name = DrA -> "6254fbef325887adc4febaa1da508707"
      [] doctor_name = DrB -> "7327449b5c936972fc942987f3403ab9"
      [] doctor_name = DrC -> "f73e788a0446a4f37db4919f7feb66ea"

\* The generator of the random module.  A state is the seed it was last
\* given and the number of values drawn since; random_stream lists, in
\* ten-thousandths rounded down, the first values random.random() draws
\* after random.seed(seed).
random_stream ==
    [seed \in {"6254fbef325887adc4febaa1da508707", "7327449b5c936972fc942987f3403ab9",
               "f73e788a0446a4f37db4919f7feb66ea", "a", "b"} |->
        CASE seed = "6254fbef325887adc4febaa1da508707" ->
                 <<130, 1449, 2054, 9560, 7024, 9139, 4101, 6372>>
          [] seed = "7327449b5c936972fc942987f3403ab9" ->
                 <<5893, 7719, 2884, 7002, 4335, 1566, 6565, 3074>>
          [] seed = "f73e788a0446a4f37db4919f7feb66ea" ->
                 <<8928, 3140, 4071, 9526, 5020, 4533, 3196, 5312>>
          [] seed = "a" -> <<2720, 673, 5999, 6442, 1752, 5902, 5573, 9703>>
          [] seed = "b" -> <<7228, 755, 5422, 7584, 7744, 5732, 6464, 7129>>]

random_seed(seed) == [seed |-> seed, draws |-> 0]
random_random(g) ==
    [value |-> random_stream[g.seed][g.draws + 1], rng |-> [g EXCEPT !.draws = @ + 1]]

\* f"{round(random.uniform(3.0, 5.0), 1)}".replace('.', ','): uniform is
\* 3.0 + 2.0 * random(), rounded to tenths and printed with a comma.
DigitChars == <<"0", "1", "2", "3", "4", "5", "6", "7", "8", "9">>
format_rating(value) ==
    LET tenths == (30000 + 2 * value + 500) \div 1000
    IN  <<DigitChars[(tenths \div 10) + 1], ",", DigitChars[(tenths % 10) + 1]>>

\* The rating drawn from a generator in state g, and the state it is left in:
\* a first value of 0.8 or more gives no rating.
draw_rating(g) ==
    LET chance == random_random(g)
        amount == random_random(chance.rng)
    IN  IF chance.value < 8000
        THEN [ret |-> format_rating(amount.value), rng |-> amount.rng]
        ELSE [ret |-> None, rng |-> chance.rng]

\* A mock rating that draws from the generator as it finds it.
generate_mock_rating_unseeded(doctor_name, g) == draw_rating(g)

\* generate_mock_rating: the generator is seeded with the digest of the name
\* before the rating is drawn.
generate_mock_rating(doctor_name, g) == draw_rating(random_seed(md5_hexdigest(doctor_name)))

\* A mock pass that rates the first record only.
mock_ratings_first_only(doctors, g) ==
    IF doctors = <<>> THEN [doctors |-> <<>>, rng |-> g]
    ELSE LET m == generate_mock_rating(Head(doctors).name, g)
         IN  [doctors |-> <<[Head(doctors) EXCEPT !.rating = m.ret]>> \o Tail(doctors),
              rng |-> m.rng]

\* for doctor in self.doctors: doctor.rating = self.generate_mock_rating(doctor.name)
RECURSIVE mock_ratings(_, _)
mock_ratings(doctors, g) ==
    IF doctors = <<>> THEN [doctors |-> <<>>, rng |-> g]
    ELSE LET m == generate_mock_rating(Head(doctors).name, g)
             rest == mock_ratings(Tail(doctors), m.rng)
         IN  [doctors |-> <<[Head(doctors) EXCEPT !.rating = m.ret]>> \o rest.doctors,
              rng |-> rest.rng]


(***************************************************************************)
(* A run with rating enrichment: test_with_ratings.py scrapes one page     *)
(* with final_doctolib_scraper.DoctolibScraper, calls add_google_ratings   *)
(* and saves the result; add_google_ratings is also entered directly on a  *)
(* scraper that has scraped nothing.  use_mock is the argument of          *)
(* add_google_ratings, taken with both of its values.                      *)
(***************************************************************************)
Avis == <<"a", "v", "i", "s">>
FourFiveStar == <<"4", ",", "5", " ", Star>>
SlashThenStar ==
    <<"n", "o", "t", "e", ":", " ", "4", ".", "2", "/", "5", " ", "4", ",", "8", " ", Star>>
RatingHtmls == {<<>>, Avis, FourFiveStar, SlashThenStar}

\* What one search answers: arun raises, reports failure, or succeeds with
\* the markup of the result page.
RatingAnswers ==
    [kind : {"raise", "fail"}, html : {<<>>}] \cup [kind : {"ok"}, html : RatingHtmls]

InitRatings ==
    /\ call \in {"main", "add_google_ratings"}
    /\ ret = <<>>
    /\ \E mock \in BOOLEAN : arg = [url |-> ExampleUrl, pages |-> 1, use_mock |-> mock]
    /\ variant = "ratings" /\ no_json = FALSE /\ no_csv = FALSE
    /\ base_url = IF call = "main" THEN <<>> ELSE clean_base_url(arg.url)
    /\ max_pages = IF call = "main" THEN 0 ELSE arg.pages
    /\ pc = IF call = "main" THEN "main" ELSE "add_ratings"
    /\ page_num = 0
    /\ page_url = <<>> /\ page_doctors = <<>> /\ all_doctors = <<>>
    /\ self_doctors = <<>> /\ fetched = NoAnswer /\ requested = <<>>
    /\ attempted = <<>> /\ page_log = <<>> /\ delays = <<>>
    /\ opened = 0 /\ released = 0 /\ saves = <<>> /\ exit_code = -1
    /\ ExtIdle

\* test_with_ratings.py: DoctolibScraper(url, max_pages=1), scrape_all_pages.
StartRatings ==
    /\ pc = "main" /\ variant = "ratings"
    /\ base_url' = clean_base_url(arg.url)
    /\ max_pages' = arg.pages
    /\ EnterLoop(arg.pages)
    /\ UNCHANGED <<call, arg, ret, variant, no_json, no_csv, extvars>>

\* if not doctors: return -- else add_google_ratings is called.
CheckResultRatings ==
    /\ pc = "returned" /\ variant = "ratings"
    /\ IF self_doctors = <<>>
       THEN pc' = "exit" /\ exit_code' = 0
       ELSE pc' = "add_ratings" /\ UNCHANGED exit_code
    /\ UNCHANGED <<purevars, extvars, variant, no_json, no_csv, base_url, max_pages, page_num,
                   page_url, page_doctors, all_doctors, self_doctors, fetched, requested,
                   attempted, page_log, delays, opened, released, saves>>

\* The return of add_google_ratings: the driver prints the summary and goes
\* on to save, a direct call is over.
RatingsDone == IF call = "main" THEN "save_json" ELSE "exit"

\* add_google_ratings up to its first await: nothing on an empty result set,
\* every mock rating at once in mock mode, else the first search starts.
AddRatings ==
    /\ pc = "add_ratings"
    /\ IF self_doctors = <<>>
       THEN /\ pc' = RatingsDone
            /\ UNCHANGED <<self_doctors, rng, rate_i, query_i>>
       ELSE IF arg.use_mock
       THEN /\ self_doctors' = mock_ratings(self_doctors, rng).doctors
            /\ rng' = mock_ratings(self_doctors, rng).rng
            /\ pc' = RatingsDone
            /\ UNCHANGED <<rate_i, query_i>>
       ELSE /\ rate_i' = 1 /\ query_i' = 1
            /\ pc' = "rate_open"
            /\ UNCHANGED <<self_doctors, rng>>
    /\ exit_code' = IF pc' = "exit" THEN 0 ELSE exit_code
    /\ UNCHANGED <<purevars, variant, no_json, no_csv, base_url, max_pages, page_num,
                   page_url, page_doctors, all_doctors, fetched, requested, attempted,
                   page_log, delays, opened, released, saves, searches, rating_delays,
                   extraction_schema, schema_log>>

\* A session that stays open when the search found a rating.
release_unless_found(n, rating) == IF rating # None THEN n ELSE n + 1

\* async with AsyncWebCrawler(...) in search_google_rating: the session is
\* left before the search returns or the next query is tried.
release_after_search(n, rating) == n + 1

\* A variant that writes the rating into the distance field as well.
StoreRatingAndDistance(rating) ==
    /\ self_doctors' = [self_doctors EXCEPT ![rate_i].rating = rating,
                                            ![rate_i].distance = rating]
    /\ query_i' = 0
    /\ pc' = IF rate_i < Len(self_doctors) THEN "rate_sleep" ELSE RatingsDone
    /\ rate_i' = IF rate_i < Len(self_doctors) THEN rate_i ELSE 0
    /\ exit_code' = IF pc' = "exit" THEN 0 ELSE exit_code

\* search_google_rating returned rating for record rate_i: the rating is
\* stored, and asyncio.sleep(5) follows unless the record is the last one.
StoreRating(rating) ==
    /\ self_doctors' = [self_doctors EXCEPT ![rate_i].rating = rating]
    /\ query_i' = 0
    /\ pc' = IF rate_i < Len(self_doctors) THEN "rate_sleep" ELSE RatingsDone
    /\ rate_i' = IF rate_i < Len(self_doctors) THEN rate_i ELSE 0
    /\ exit_code' = IF pc' = "exit" THEN 0 ELSE exit_code

\* The browser session of query query_i is entered.
RateOpen ==
    /\ pc = "rate_open"
    /\ opened' = opened + 1
    /\ pc' = "rate_fetch"
    /\ UNCHANGED <<purevars, variant, no_json, no_csv, base_url, max_pages, page_num,
                   page_url, page_doctors, all_doctors, self_doctors, fetched, requested,
                   attempted, page_log, delays, released, saves, exit_code, extvars>>

\* Entering the session raises: the handler of search_google_rating returns
\* None, the remaining queries are not tried.
RateOpenFails ==
    /\ pc = "rate_open"
    /\ searches' = Append(searches, [name |-> self_doctors[rate_i].name,
                                     query |-> search_queries(self_doctors[rate_i].name)[query_i],
                                     kind |-> "open_raised", found |-> None])
    /\ StoreRating(None)
    /\ UNCHANGED <<purevars, variant, no_json, no_csv, base_url, max_pages, page_num,
                   page_url, page_doctors, all_doctors, fetched, requested, attempted,
                   page_log, delays, opened, released, saves, rating_delays,
                   extraction_schema, schema_log, rng>>

\* The search of query query_i: an exception ends the search of the record
\* with None, a rating in the markup ends it with the rating, anything else
\* goes on to the next query, and to None after the last one.
RateFetch ==
    /\ pc = "rate_fetch"
    /\ \E ans \in RatingAnswers :
          LET rating == rating_of(ans)
          IN  /\ searches' = Append(searches,
                                 [name |-> self_doctors[rate_i].name,
                                  query |-> search_queries(self_doctors[rate_i].name)[query_i],
                                  kind |-> ans.kind, found |-> rating])
              /\ fetched' = ans
              /\ released' = release_after_search(released, rating)
              /\ IF ans.kind # "raise" /\ rating = None /\ query_i < Len(search_queries(<<>>))
                 THEN /\ query_i' = query_i + 1
                      /\ pc' = "rate_open"
                      /\ UNCHANGED <<self_doctors, rate_i, exit_code>>
                 ELSE StoreRating(rating)
    /\ UNCHANGED <<purevars, variant, no_json, no_csv, base_url, max_pages, page_num,
                   page_url, page_doctors, all_doctors, requested, attempted,
                   page_log, delays, opened, saves, rating_delays, extraction_schema,
                   schema_log, rng>>

\* await asyncio.sleep(5) between two records.
RateSleep ==
    /\ pc = "rate_sleep"
    /\ rating_delays' = Append(rating_delays, rate_i)
    /\ rate_i' = rate_i + 1
    /\ query_i' = 1
    /\ pc' = "rate_open"
    /\ UNCHANGED <<purevars, variant, no_json, no_csv, base_url, max_pages, page_num,
                   page_url, page_doctors, all_doctors, self_doctors, fetched, requested,
                   attempted, page_log, delays, opened, released, saves, exit_code,
                   searches, extraction_schema, schema_log, rng>>

NextRatings ==
    \/ StartRatings
    \/ OpenSession
    \/ OpenSessionFails
    \/ Fetch
    \/ ClosePage
    \/ CheckResultRatings
    \/ AddRatings
    \/ RateOpen
    \/ RateOpenFails
    \/ RateFetch
    \/ RateSleep
    \/ SaveJson
    \/ SaveCsv

SpecRatings == InitRatings /\ [][NextRatings]_vars


(***************************************************************************)
(* Properties of a run with rating enrichment.                             *)
(***************************************************************************)
\* The searches handed to crawler.arun (a session that failed to start
\* issued none).
RECURSIVE IssuedSearches(_)
IssuedSearches(log) ==
    IF log = <<>> THEN 0
    ELSE (IF Head(log).kind = "open_raised" THEN 0 ELSE 1) + IssuedSearches(Tail(log))

SessionsOpen == opened - released
FetchesInFlight == opened - (Len(requested) + IssuedSearches(searches))

Exited == pc = "exit"
ZeroRecordRun ==
    /\ Exited /\ max_pages >= 1 /\ Len(page_log) = max_pages
    /\ self_doctors = <<>> /\ saves = <<>>
FatalError == Exited /\ (SaveRaised("json") \/ SaveRaised("csv"))

\* C13: a run that completes with zero records and a run that fails with a
\* fatal error never end with the same exit indication: the failing run
\* exits non-zero, the zero-record run does not.
C13_ZeroRecordsDistinctFromFatal ==
    /\ FatalError => exit_code # 0
    /\ ZeroRecordRun => exit_code = 0


\* The inputs the entry point has to refuse: a configuration file that is
\* missing, malformed or without base_url, a page count below 1, an empty URL.
ConfigurationFailure ==
    \/ ConfigRun /\ arg.file # "ok"
    \/ arg.pages < 1
    \/ arg.url = EmptyUrl

\* C14: with a missing or malformed configuration, a page count below 1 or
\* an empty base URL the run does not start: no page is attempted, no
\* session is opened, no fetch is issued, and the entry point ends with a
\* fatal error.
C14_InvalidConfigurationNeverStarts ==
    ConfigurationFailure =>
        /\ attempted = <<>> /\ opened = 0 /\ requested = <<>>
        /\ Exited => exit_code # 0


(***************************************************************************)
(* The query parameters of a URL, as the site reads them: the text after   *)
(* the first "?" split at every "&".                                       *)
(***************************************************************************)
RECURSIVE SplitAmp(_, _)
SplitAmp(s, word) ==
    IF s = <<>> THEN <<word>>
    ELSE IF Head(s) = "&" THEN <<word>> \o SplitAmp(Tail(s), <<>>)
    ELSE SplitAmp(Tail(s), Append(word, Head(s)))

QueryParams(url) ==
    IF ~Contains(url, <<"?">>) THEN <<>>
    ELSE SplitAmp(SubSeq(url, FindFirst(url, <<"?">>) + 1, Len(url)), <<>>)

PageKey == <<"p", "a", "g", "e">>
IsPageParam(param) == param = PageKey \/ StartsWith(param, PageKey \o <<"=">>)
PageParams(url) == SelectSeq(QueryParams(url), IsPageParam)
OtherParams(url) == SelectSeq(QueryParams(url), LAMBDA param : ~IsPageParam(param) /\ param # <<>>)

\* C15: for every input URL the stored base URL carries no page parameter,
\* the URL built for page 1 carries exactly one page parameter, the one of
\* page 1, and the other query parameters of the input URL are all kept.
C15_ExactlyOnePageParameter ==
    call = "built" =>
        /\ PageParams(ret.base) = <<>>
        /\ PageParams(ret.first) = <<PageKey \o <<"=", "1">>>>
        /\ OtherParams(ret.first) = OtherParams(arg)


(***************************************************************************)
(* Termination.  Every await of the run completes: the fetches have a page *)
(* timeout and the delays are finite, so a step that is possible is        *)
(* eventually taken.                                                       *)
(***************************************************************************)
SpecLive == Spec /\ WF_vars(Next)

AttemptsInOrder == attempted = [n \in 1..Len(attempted) |-> n]

\* C16: scrape_all_pages terminates after exactly max_pages page attempts
\* whatever the collaborator answers: the attempts are pages 1, 2, ... in
\* order and never exceed max_pages, the loop goes on after a page without
\* records, a failed page and a page that raised, it has made exactly
\* max_pages attempts when it returns, and every run comes to its end.
C16_TerminatesAfterMaxPages ==
    /\ [](AttemptsInOrder /\ Len(attempted) <= max_pages)
    /\ [](Returned => Len(attempted) = max_pages)
    /\ <>(Returned \/ Exited)

\* scrape_all_pages has returned after three attempts: a page that raised, a
\* page that reported failure and a page without records.
C16_Witness ==
    /\ Returned /\ max_pages = 3 /\ attempted = <<1, 2, 3>>
    /\ page_log[1].outcome = "raise" /\ page_log[2].outcome = "fail"
    /\ page_log[3].outcome = "ok" /\ page_log[3].returned = <<>>
    /\ self_doctors = <<>>


\* C17 (as stated): when scrape_all_pages returns, the delay has run exactly
\* once after each attempt of a page n < max_pages, whatever the attempt
\* did, and not after page max_pages.
C17_DelayBetweenAllAttempts ==
    Returned => delays = [n \in 1..(max_pages - 1) |-> n]

\* C17 (amended): the delay runs exactly once after every page n < max_pages
\* whose scrape_page returned -- the page succeeded, returned nothing, or
\* its fetch failed or raised -- and never after page max_pages; a page
\* whose browser session failed to start is followed by no delay.  Hence
\* exactly one delay separates two consecutive page fetches.
C17_DelayAfterEveryFetchedPage ==
    /\ \A i \in 1..Len(delays) :
          /\ delays[i] < max_pages
          /\ page_log[delays[i]].outcome # "open_raised"
    /\ Returned =>
          delays = SelectSeq(OpenedPages(page_log), LAMBDA n : n < max_pages)

\* Page 1 failed, page 2 returned nothing, page 3 was the last: two delays.
C17_Witness ==
    /\ Returned /\ max_pages = 3 /\ Len(page_log) = 3
    /\ page_log[1].outcome = "fail"
    /\ page_log[2].outcome = "ok" /\ page_log[2].returned = <<>>
    /\ page_log[3].outcome = "ok" /\ page_log[3].returned # <<>>
    /\ delays = <<1, 2>>


(***************************************************************************)
(* A run of llm_doctolib_scraper.py (ollama_doctolib_scraper.py repeats    *)
(* it): main constructs the scraper, loads a schema when --load-schema is  *)
(* given, and scrape_all_pages generates the extraction schema before the  *)
(* page loop.  arg.load is the schema file: "none" without --load-schema,  *)
(* "ok", "missing", or "malformed" for a file that is not JSON.            *)
(* extraction_schema is "none", "loaded", "generated" or "fallback"; a     *)
(* generated schema is taken to be a non-empty object.                     *)
(***************************************************************************)
LlmArgs == [url : {ExampleUrl}, pages : 1..2, load : {"none", "ok", "missing", "malformed"}]

InitLlm ==
    /\ call = "main" /\ ret = <<>>
    /\ arg \in LlmArgs
    /\ variant = "llm" /\ no_json = FALSE /\ no_csv = FALSE
    /\ base_url = <<>> /\ max_pages = 0 /\ pc = "main" /\ page_num = 0
    /\ page_url = <<>> /\ page_doctors = <<>> /\ all_doctors = <<>>
    /\ self_doctors = <<>> /\ fetched = NoAnswer /\ requested = <<>>
    /\ attempted = <<>> /\ page_log = <<>> /\ delays = <<>>
    /\ opened = 0 /\ released = 0 /\ saves = <<>> /\ exit_code = -1
    /\ ExtIdle

\* load_schema: the schema of the file replaces self.extraction_schema; a
\* missing file leaves it alone, a file that is not JSON raises.
load_schema(schema, file) ==
    CASE file = "ok" -> [raised |-> FALSE, schema |-> "loaded"]
      [] file = "malformed" -> [raised |-> TRUE, schema |-> schema]
      [] OTHER -> [raised |-> FALSE, schema |-> schema]

\* scrape_all_pages: await self.generate_extraction_schema(), whatever
\* self.extraction_schema holds.
generate_first(schema) == "generate_schema"

\* main up to the first await: the constructor, load_schema, and the entry
\* of scrape_all_pages.  An exception of load_schema reaches main's handler,
\* which prints it and returns.
StartLlm ==
    /\ pc = "main" /\ variant = "llm"
    /\ base_url' = clean_base_url(arg.url)
    /\ max_pages' = arg.pages
    /\ LET loaded == IF arg.load = "none" THEN [raised |-> FALSE, schema |-> "none"]
                     ELSE load_schema("none", arg.load)
       IN  /\ extraction_schema' = loaded.schema
           /\ IF loaded.raised
              THEN pc' = "exit" /\ exit_code' = 0 /\ UNCHANGED page_num
              ELSE /\ pc' = generate_first(loaded.schema)
                   /\ page_num' = IF pc' = "scrape_page" THEN 1 ELSE 0
                   /\ UNCHANGED exit_code
    /\ UNCHANGED <<purevars, variant, no_json, no_csv, page_url, page_doctors, all_doctors,
                   self_doctors, fetched, requested, attempted, page_log, delays, opened,
                   released, saves, rate_i, query_i, searches, rating_delays, schema_log,
                   rng>>

\* generate_extraction_schema enters its browser session.
GenerateSchemaOpen ==
    /\ pc = "generate_schema"
    /\ opened' = opened + 1
    /\ pc' = "schema_fetch"
    /\ UNCHANGED <<purevars, extvars, variant, no_json, no_csv, base_url, max_pages, page_num,
                   page_url, page_doctors, all_doctors, self_doctors, fetched, requested,
                   attempted, page_log, delays, released, saves, exit_code>>

\* Entering the session raises: the with statement is outside the try of
\* generate_extraction_schema and the call is outside the try of
\* scrape_all_pages, so the exception reaches main's handler.
GenerateSchemaOpenFails ==
    /\ pc = "generate_schema"
    /\ schema_log' = Append(schema_log, "open_raised")
    /\ pc' = "exit" /\ exit_code' = 0
    /\ UNCHANGED <<purevars, variant, no_json, no_csv, base_url, max_pages, page_num,
                   page_url, page_doctors, all_doctors, self_doctors, fetched, requested,
                   attempted, page_log, delays, opened, released, saves, rate_i, query_i,
                   searches, rating_delays, extraction_schema, rng>>

\* The body of generate_extraction_schema: the sample page (page 1) is
\* fetched and the LLM asked for a schema; whenever the fetch raises or
\* reports failure or the LLM call raises, the manual fallback schema is
\* installed.  The page loop starts.
GenerateSchemaFetch ==
    /\ pc = "schema_fetch"
    /\ \E outcome \in {"generated", "fetch_raised", "fetch_failed", "llm_raised"} :
          /\ schema_log' = Append(schema_log, outcome)
          /\ extraction_schema' = IF outcome = "generated" THEN "generated" ELSE "fallback"
    /\ requested' = Append(requested, build_page_url(base_url, 1))
    /\ released' = released + 1
    /\ pc' = "scrape_page" /\ page_num' = 1
    /\ UNCHANGED <<purevars, variant, no_json, no_csv, base_url, max_pages, page_url,
                   page_doctors, all_doctors, self_doctors, fetched, attempted, page_log,
                   delays, opened, saves, exit_code, rate_i, query_i, searches,
                   rating_delays, rng>>

\* if not doctors: return -- else the summary and the saves.
CheckResultLlm ==
    /\ pc = "returned" /\ variant = "llm"
    /\ IF self_doctors = <<>>
       THEN pc' = "exit" /\ exit_code' = 0
       ELSE pc' = "save_json" /\ UNCHANGED exit_code
    /\ UNCHANGED <<purevars, extvars, variant, no_json, no_csv, base_url, max_pages, page_num,
                   page_url, page_doctors, all_doctors, self_doctors, fetched, requested,
                   attempted, page_log, delays, opened, released, saves>>

\* if not LOAD_SCHEMA: scraper.save_schema(SCHEMA_FILE); main returns.
SaveSchema ==
    /\ pc = "save_schema"
    /\ IF arg.load # "none"
       THEN UNCHANGED saves
       ELSE \E ok \in BOOLEAN :
               saves' = Append(saves, [file |-> "schema", ok |-> ok, doctors |-> <<>>])
    /\ pc' = "exit" /\ exit_code' = 0
    /\ UNCHANGED <<purevars, extvars, variant, no_json, no_csv, base_url, max_pages, page_num,
                   page_url, page_doctors, all_doctors, self_doctors, fetched, requested,
                   attempted, page_log, delays, opened, released>>

NextLlm ==
    \/ StartLlm
    \/ GenerateSchemaOpen
    \/ GenerateSchemaOpenFails
    \/ GenerateSchemaFetch
    \/ OpenSession
    \/ OpenSessionFails
    \/ Fetch
    \/ ClosePage
    \/ Sleep
    \/ CheckResultLlm
    \/ SaveJson
    \/ SaveCsv
    \/ SaveSchema

SpecLlm == InitLlm /\ [][NextLlm]_vars

\* C18: once load_schema has loaded a schema, scrape_all_pages does not
\* generate one: generate_extraction_schema is never invoked and the loaded
\* schema is the one in use for every page.
C18_LoadedSchemaSkipsGeneration ==
    (variant = "llm" /\ arg.load = "ok") =>
        /\ schema_log = <<>>
        /\ pc \in {"scrape_page", "fetch", "close", "sleep", "returned"}
              => extraction_schema = "loaded"


\* add_google_ratings has returned on a result set that was not empty.
RatingsAdded == self_doctors # <<>> /\ pc \in {"save_json", "save_csv", "exit"}
ThreeThree == <<"3", ",", "3">>
FourFive == <<"4", ",", "5">>

\* C19: add_google_ratings(use_mock=True) searches nothing, opens no browser
\* session (the only sessions are those of the scraped pages) and runs no
\* delay; once it has returned on a non-empty result set, every record's
\* rating is generate_mock_rating of its name; on an empty result set it
\* changes nothing.
C19_MockRatingsWithoutSearch ==
    arg.use_mock =>
        /\ searches = <<>> /\ rating_delays = <<>> /\ rate_i = 0 /\ query_i = 0
        /\ opened = Len(OpenedPages(page_log)) + (IF pc \in {"fetch", "close"} THEN 1 ELSE 0)
        /\ Len(requested) <= opened
        /\ RatingsAdded =>
              \A i \in 1..Len(self_doctors) :
                  self_doctors[i].rating = generate_mock_rating(self_doctors[i].name, rng).ret
        /\ call = "add_google_ratings" =>
              /\ self_doctors = <<>> /\ opened = 0 /\ requested = <<>>
              /\ rng = Unseeded /\ saves = <<>>

\* Two records got their mock ratings, with the page's session as the only one.
C19_Witness ==
    /\ arg.use_mock /\ pc = "save_json"
    /\ Len(self_doctors) = 2
    /\ self_doctors[1].name = DrA /\ self_doctors[1].rating = ThreeThree
    /\ self_doctors[2].name = DrB /\ self_doctors[2].rating = FourFive
    /\ searches = <<>> /\ rating_delays = <<>> /\ opened = 1


(***************************************************************************)
(* generate_mock_rating called repeatedly, between other users of the      *)
(* random module: the generator starts in any state (seeded by someone     *)
(* else, with some values already drawn), and between two calls other code *)
(* draws values or seeds the generator again.  ret is the list of the      *)
(* calls made, each with its name and the value returned.                  *)
(***************************************************************************)
MaxCalls == 3        \* calls of generate_mock_rating in one behaviour
MaxDraws == 3        \* values drawn since the last seed when a step starts
MockNames == {DrA, DrB, DrC}
OtherSeeds == {"a", "b"}

InitMock ==
    /\ call = "none" /\ arg = <<>> /\ ret = <<>>
    /\ rng \in [seed : OtherSeeds, draws : 0..MaxDraws]
    /\ rate_i = 0 /\ query_i = 0 /\ searches = <<>> /\ rating_delays = <<>>
    /\ extraction_schema = "none" /\ schema_log = <<>>
    /\ variant = "none" /\ no_json = FALSE /\ no_csv = FALSE
    /\ base_url = <<>> /\ max_pages = 0 /\ pc = "idle" /\ page_num = 0
    /\ page_url = <<>> /\ page_doctors = <<>> /\ all_doctors = <<>>
    /\ self_doctors = <<>> /\ fetched = <<>> /\ requested = <<>>
    /\ attempted = <<>> /\ page_log = <<>> /\ delays = <<>>
    /\ opened = 0 /\ released = 0 /\ saves = <<>> /\ exit_code = -1

mockframe == <<variant, no_json, no_csv, base_url, max_pages, pc, page_num, page_url,
               page_doctors, all_doctors, self_doctors, fetched, requested, attempted,
               page_log, delays, opened, released, saves, exit_code, rate_i, query_i,
               searches, rating_delays, extraction_schema, schema_log>>

\* scraper.generate_mock_rating(name).
MockCall ==
    /\ Len(ret) < MaxCalls /\ rng.draws <= MaxDraws
    /\ \E doctor_name \in MockNames :
          LET m == generate_mock_rating(doctor_name, rng)
          IN  /\ call' = "generate_mock_rating"
              /\ arg' = doctor_name
              /\ ret' = Append(ret, [name |-> doctor_name, value |-> m.ret])
              /\ rng' = m.rng
    /\ UNCHANGED mockframe

\* Other code calls random.random().
OtherDraw ==
    /\ rng.draws < MaxDraws
    /\ rng' = random_random(rng).rng
    /\ UNCHANGED <<purevars, mockframe>>

\* Other code calls random.seed.
OtherSeed ==
    /\ \E seed \in OtherSeeds : rng' = random_seed(seed)
    /\ UNCHANGED <<purevars, mockframe>>

NextMock == MockCall \/ OtherDraw \/ OtherSeed

SpecMock == InitMock /\ [][NextMock]_vars

\* C20: generate_mock_rating is a function of the name alone: two calls with
\* the same name return the same value, a rating or None, whatever state the
\* generator was in and whatever was drawn or seeded between them.
C20_MockRatingDependsOnNameOnly ==
    \A i, j \in 1..Len(ret) : ret[i].name = ret[j].name => ret[i].value = ret[j].value

\* Dr A was rated twice, with a call for another name in between, from a
\* generator that had been seeded and drawn from: both calls gave 3,3.
C20_Witness ==
    /\ Len(ret) = 3
    /\ ret[1] = [name |-> DrA, value |-> ThreeThree]
    /\ ret[2] = [name |-> DrC, value |-> None]
    /\ ret[3] = [name |-> DrA, value |-> ThreeThree]


(***************************************************************************)
(* Claims about the extraction passes and the enrichment (C21..C30).       *)
(***************************************************************************)
\* The values _parse_extracted_data hands to _clean_text (lines 143-145): the
\* three fields of every dict item, "" standing for a missing key.
CleanTextArguments(content) ==
    IF ~content.wf \/ content.top = "other" THEN {}
    ELSE { Get(content.items[i], key, <<>>) :
             i \in {j \in 1..Len(content.items) : content.items[j].dict},
             key \in {"name", "distance", "insurance"} }

\* C21: _clean_text never raises: for a null or empty value it returns the
\* empty string, and for every other value a field of an extracted item can
\* carry, a non-string JSON value included, it returns a string.
C21_CleanTextNeverRaises ==
    call = "_parse_extracted_data" =>
        \A v \in CleanTextArguments(arg) :
            /\ ~clean_text_value(v).raised
            /\ v.k \in {"null", "falsy"} => clean_text_value(v).s = <<>>


(***************************************************************************)
(* scrape_page on one fetched page: the structured pass of                 *)
(* doctolib_scraper.py followed by its two markup passes, and the          *)
(* structured pass of the LLM scrapers, on every answer made of a batch of *)
(* up to two items and a page of up to MaxHeadings cards.                  *)
(***************************************************************************)
RatedItem == [dict |-> TRUE, fields |-> [name |-> JStr(DrB), rating |-> JStr(FourFive)]]
PageItems == {Item(JStr(DrA), Absent), Item(JStr(DrB), Absent), BlankName, RatedItem,
              Item(JTruthy, Absent)}
PageContents ==
    {Malformed, JsonOther} \cup {JsonList(items) : items \in StringsUpTo(PageItems, 2)}
PageCards ==
    [wrapped : BOOLEAN, attrs : {FALSE}, name : {DrA, DrB, <<" ">>}, body : {<<>>, BodyFull}]
PageAnswers ==
    [kind : {"raise", "fail"}, ext : {"none"}, content : {Malformed}, html : {<<>>}]
    \cup [kind : {"ok"}, ext : {"ok"}, content : PageContents,
          html : StringsUpTo(PageCards, MaxHeadings)]
    \cup [kind : {"ok"}, ext : {"fail", "raise"}, content : {Malformed},
          html : StringsUpTo(PageCards, MaxHeadings)]

PageUrl == build_page_url(ExampleUrl, 1)

\* The records of each pass of doctolib_scraper.py taken alone.
StructuredPass(ans, url) ==
    IF ans.kind = "ok" /\ ans.ext = "ok" /\ ans.content.wf /\ ans.content.top = "list"
    THEN StructuredItems(ans.content.items, url, <<>>).doctors
    ELSE <<>>
SectionPass(html) == section_doctors(section_matches(html, LowerStr(html), 1))
ContextPass(html) == context_doctors(html, LowerStr(html), name_matches(html, LowerStr(html), 1))

\* The passes scrape_page runs on an answer, in the order it runs them: the
\* second arun whenever the page loaded, _extract_doctors_from_html under
\* `if not doctors`, its loop over name_matches under
\* `if not doctors and name_matches`.
doctolib_passes(ans, url) ==
    LET html == Render(ans.html)
        r == IF ans.ext = "ok" /\ ans.content.wf /\ ans.content.top = "list"
             THEN StructuredItems(ans.content.items, url, <<>>)
             ELSE [raised |-> FALSE, doctors |-> <<>>]
    IN  IF ans.kind # "ok" THEN <<>>
        ELSE IF ans.ext = "raise" \/ r.raised \/ r.doctors # <<>> THEN <<"structured">>
        ELSE IF SectionPass(html) = <<>> /\ name_matches(html, LowerStr(html), 1) # <<>>
             THEN <<"structured", "section", "context">>
             ELSE <<"structured", "section">>

InitPage ==
    /\ call = "none" /\ arg \in PageAnswers /\ ret = <<>>
    /\ RunIdle

ScrapePageDoctolib ==
    /\ call = "none"
    /\ call' = "doctolib.scrape_page"
    /\ ret' = doctolib_page_doctors(arg, PageUrl)
    /\ page_log' = doctolib_passes(arg, PageUrl)
    /\ UNCHANGED <<arg, extvars, variant, no_json, no_csv, base_url, max_pages, pc, page_num,
                   page_url, page_doctors, all_doctors, self_doctors, fetched, requested,
                   attempted, delays, opened, released, saves, exit_code>>

ScrapePageLlm ==
    /\ call = "none"
    /\ call' = "llm.scrape_page"
    /\ ret' = llm_page_doctors(arg)
    /\ UNCHANGED <<arg, runvars>>

NextPage == ScrapePageDoctolib \/ ScrapePageLlm

SpecPage == InitPage /\ [][NextPage]_vars

IsPrefix(s, t) == Len(s) <= Len(t) /\ s = SubSeq(t, 1, Len(s))
Ran(pass) == \E i \in 1..Len(page_log) : page_log[i] = pass

\* C22: the passes of one page are tried in the order structured, section,
\* context; the page's records are the output of exactly one pass, the first
\* that yielded a record; a later pass runs only when every earlier pass
\* yielded none; the records of two passes are never merged.
C22_FirstYieldingPassOnly ==
    call = "doctolib.scrape_page" =>
        LET structured == StructuredPass(arg, PageUrl)
            section == SectionPass(Render(arg.html))
            context == ContextPass(Render(arg.html))
        IN  /\ IsPrefix(page_log, <<"structured", "section", "context">>)
            /\ Ran("section") => structured = <<>>
            /\ Ran("context") => structured = <<>> /\ section = <<>>
            /\ ret = IF structured # <<>> THEN structured
                     ELSE IF Ran("section") /\ section # <<>> THEN section
                     ELSE IF Ran("context") THEN context
                     ELSE <<>>

\* The structured pass yielded a record on a page whose markup both markup
\* passes can read, and the page's records are the structured ones alone.
C22_Witness ==
    /\ call = "doctolib.scrape_page"
    /\ StructuredPass(arg, PageUrl) # <<>>
    /\ ContextPass(Render(arg.html)) # <<>>
    /\ SectionPass(Render(arg.html)) # <<>>
    /\ ret = StructuredPass(arg, PageUrl)
    /\ page_log = <<"structured">>


\* The searches issued for one name, in the order they were issued.
SearchesOf(name) == SelectSeq(searches, LAMBDA e : e.name = name)

\* The search of record i has returned.
SearchReturned(i) ==
    /\ SearchesOf(self_doctors[i].name) # <<>>
    /\ rate_i = 0 \/ i < rate_i \/ (i = rate_i /\ pc = "rate_sleep")

\* The first match of the first pattern of the list that matches the markup.
FirstPatternFirstMatch(html) ==
    LET matching == {k \in 1..Len(rating_patterns) : first_rating(html, rating_patterns[k]) # <<>>}
    IN  IF matching = {} THEN None
        ELSE first_rating(html, rating_patterns[CHOOSE k \in matching :
                                                   \A m \in matching : k <= m])[1]

\* The queries of one record follow the list of templates, each after a
\* query that succeeded or failed without a match, and the rating of the
\* last query is the first match of the first matching pattern.
QueriesInOrder(i) ==
    LET name == self_doctors[i].name
        S == SearchesOf(name)
    IN  /\ Len(S) <= Len(search_queries(name))
        /\ \A k \in 1..Len(S) : S[k].query = search_queries(name)[k]
        /\ \A k \in 1..(Len(S) - 1) : S[k].kind \in {"ok", "fail"} /\ S[k].found = None
        /\ SearchReturned(i) => self_doctors[i].rating = S[Len(S)].found

LastSearchFound ==
    (searches # <<>> /\ searches[Len(searches)].kind # "open_raised") =>
        /\ fetched.kind = searches[Len(searches)].kind
        /\ searches[Len(searches)].found =
              IF fetched.kind = "ok" THEN FirstPatternFirstMatch(fetched.html) ELSE None

\* C23 (as stated): search_google_rating tries the query templates in their
\* order and the rating patterns in their order within one query's markup, returns the
\* first match of the first matching pattern of the first query that
\* succeeded with a match and issues no query after it; it returns no rating
\* only after every template was tried without a match.
C23_NoRatingOnlyAfterEveryTemplate ==
    /\ LastSearchFound
    /\ \A i \in 1..Len(self_doctors) :
          /\ QueriesInOrder(i)
          /\ (SearchReturned(i) /\ self_doctors[i].rating = None) =>
                LET S == SearchesOf(self_doctors[i].name)
                IN  /\ Len(S) = Len(search_queries(<<>>))
                    /\ \A k \in 1..Len(S) : S[k].kind \in {"ok", "fail"}

\* C23 (amended): search_google_rating tries the query templates in their order and
\* the rating patterns in their order within one query's markup, returns the
\* first match of the first matching pattern of the first query that
\* succeeded with a match and issues no query after it; it returns no rating
\* after every template was tried without a match, or as soon as a session
\* start or a fetch raises, the remaining templates untried.
C23_FirstMatchOrAllTemplatesOrException ==
    /\ LastSearchFound
    /\ \A i \in 1..Len(self_doctors) :
          /\ QueriesInOrder(i)
          /\ (SearchReturned(i) /\ self_doctors[i].rating = None) =>
                LET S == SearchesOf(self_doctors[i].name)
                IN  \/ Len(S) = Len(search_queries(<<>>))
                    \/ S[Len(S)].kind \in {"raise", "open_raised"}

\* The first query of a record had no match, the second found "4,8" in
\* markup whose earlier "4.2/5" a later pattern matches, and no third query
\* was issued.
C23_Witness ==
    /\ Len(self_doctors) >= 1 /\ SearchReturned(1)
    /\ Len(SearchesOf(self_doctors[1].name)) = 2
    /\ SearchesOf(self_doctors[1].name)[1].kind = "ok"
    /\ fetched.kind = "ok" /\ fetched.html = SlashThenStar
    /\ self_doctors[1].rating = <<"4", ",", "8">>
    /\ Len(searches) = 2


\* A record without a rating: the field is None or the empty string.
NoRating(doctor) == doctor.rating \in {None, <<>>}

\* C24: the rating of a record is populated by the enrichment only: the
\* records scrape_page hands to scrape_all_pages, before any
\* add_google_ratings, have no rating, whichever pass produced them.
C24_RatingOnlyFromEnrichment ==
    call = "doctolib.scrape_page" => \A i \in 1..Len(ret) : NoRating(ret[i])


\* C25: every record a scraper accumulates has a name that is non-empty
\* after normalization, whichever extraction path produced it and whatever
\* the raw name was, a name of whitespace only included.
C25_AccumulatedNamesNonEmpty ==
    call \in {"doctolib.scrape_page", "llm.scrape_page"} =>
        \A i \in 1..Len(ret) : clean_text_basic(ret[i].name) # <<>>


\* The number of distinct non-empty names among the name headings of a page.
DistinctHeadings(html) ==
    LET names == name_matches(html, LowerStr(html), 1)
    IN  Cardinality({clean_text_basic(StripTags(names[i])) : i \in 1..Len(names)} \ {<<>>})

Distance(a, b) == IF a < b THEN b - a ELSE a - b

\* C26: when the structured pass extracts fewer records than the page's
\* markup has distinct name headings, scrape_page returns the output of the
\* pass whose record count is closest to that number.
C26_CloserPassPreferred ==
    (/\ call = "doctolib.scrape_page"
     /\ arg.kind = "ok" /\ arg.ext = "ok" /\ arg.content.wf /\ arg.content.top = "list"
     /\ ~StructuredItems(arg.content.items, PageUrl, <<>>).raised
     /\ Len(StructuredPass(arg, PageUrl)) < DistinctHeadings(Render(arg.html)))
    => LET n == DistinctHeadings(Render(arg.html))
           passes == {StructuredPass(arg, PageUrl), SectionPass(Render(arg.html)),
                      ContextPass(Render(arg.html))}
       IN  /\ ret \in passes
           /\ \A p \in passes : Distance(Len(ret), n) <= Distance(Len(p), n)


\* The records with their rating field set aside.
WithoutRatings(doctors) == [i \in 1..Len(doctors) |-> [doctors[i] EXCEPT !.rating = None]]

\* scrape_all_pages has returned and add_google_ratings is due, running or over.
EnrichmentReached ==
    pc \in {"add_ratings", "rate_open", "rate_fetch", "rate_sleep", "save_json", "save_csv", "exit"}

\* C27: add_google_ratings, in mock mode and in real mode, changes no field
\* of a record other than its rating and neither adds, removes nor reorders
\* records: apart from the ratings the result set stays what scrape_all_pages
\* returned.
C27_EnrichmentChangesRatingOnly ==
    EnrichmentReached => WithoutRatings(self_doctors) = all_doctors

\* Real mode has searched for both of two records and found a rating for the
\* first one.
C27_Witness ==
    /\ pc = "save_json" /\ ~arg.use_mock
    /\ Len(self_doctors) = 2
    /\ self_doctors[1].rating # None
    /\ Len(SearchesOf(self_doctors[2].name)) >= 1
    /\ WithoutRatings(self_doctors) = all_doctors


\* The number of records the pages before entry p of the log returned.
RECURSIVE Offset(_, _)
Offset(log, p) == IF p <= 1 THEN 0 ELSE Offset(log, p - 1) + Len(log[p - 1].returned)

\* C28: the result of scrape_all_pages is ordered by page number and, within
\* a page, by extraction order: the q-th record page p returned stands right
\* after the records of the pages before p and the first q-1 records of p,
\* and the list holds nothing else.
C28_OrderedByPageThenExtraction ==
    /\ \A p \in 1..Len(page_log) :
          /\ p > 1 => page_log[p - 1].page < page_log[p].page
          /\ \A q \in 1..Len(page_log[p].returned) :
                /\ Offset(page_log, p) + q <= Len(all_doctors)
                /\ all_doctors[Offset(page_log, p) + q] = page_log[p].returned[q]
    /\ Len(all_doctors) = Offset(page_log, Len(page_log) + 1)
    /\ Returned => self_doctors = all_doctors

\* Page 1 returned "Dr B", page 2 "Dr A" and "Dr B", and the result lists
\* them in this order.
C28_Witness ==
    /\ Returned /\ Len(page_log) = 2
    /\ NamesOf(page_log[1].returned) = <<DrB>>
    /\ NamesOf(page_log[2].returned) = <<DrA, DrB>>
    /\ NamesOf(self_doctors) = <<DrB, DrA, DrB>>


\* The records the context pass owes to a page of unwrapped cards when every
\* heading is read with its own block, the markup up to the next heading.
RECURSIVE OwnBlockDoctors(_)
OwnBlockDoctors(cards) ==
    IF cards = <<>> THEN <<>>
    ELSE LET clean_name == clean_text_basic(StripTags(Head(cards).name))
         IN  (IF clean_name # <<>>
              THEN <<parse_doctor_context(clean_name, Head(cards).body)>>
              ELSE <<>>)
             \o OwnBlockDoctors(Tail(cards))

\* C29: in the name-anchored context pass every record takes its fields from
\* the markup between its own name heading and the next one (or the end of
\* the document), also when two headings carry the same name: there is one
\* record per non-empty name heading and none reads another heading's block.
C29_ContextFieldsFromOwnBlock ==
    (/\ call = "_extract_doctors_from_html"
     /\ \A k \in 1..Len(arg) : ~arg[k].wrapped)
    => ret = OwnBlockDoctors(arg)


\* C30: generate_extraction_schema never raises and always leaves
\* extraction_schema set: whenever loading the sample page, starting the
\* browser session or the LLM generation fails, the manual fallback schema is
\* installed, so that no failure of the generation ends scrape_all_pages
\* before page 1 is attempted.
C30_SchemaFailureInstallsFallback ==
    (variant = "llm" /\ schema_log # <<>>) =>
        /\ extraction_schema # "none"
        /\ schema_log[Len(schema_log)] # "generated" => extraction_schema = "fallback"
        /\ pc = "exit" => attempted # <<>>

====
